---- MODULE Spec2Model ----
(***************************************************************************)
(* Slope-stability screening, soil-layer selection, soil-springs stress    *)
(* engine and decision-matrix aggregation of the EMPCO tools.              *)
(*                                                                         *)
(* Numbers.  The Python code computes in binary floating point.  Here      *)
(* every quantity is a scaled integer:                                     *)
(*   Factor of Safety      thousandths          (1.5   -> 1500)            *)
(*   depth, thickness      one length unit, the same for both             *)
(*   pipe OD, wall         thousandths of inch  (0.375 -> 375)             *)
(*   stresses, pressures   thousandths of psi                              *)
(*   forces                thousandths of lb/ft                            *)
(* Python's None is NoneRec where a record is expected, the string "None"  *)
(* where a string is expected and NoDepth for the depth argument.          *)
(***************************************************************************)
EXTENDS Integers, Sequences, FiniteSets, TLC

VARIABLES
    \* ---- soil stratigraphy lookup (IntegratedAnalysisEngine) ----
    soil_layers,            \* slope_config.soil_layers of the configuration looked up
    pipe_depth_of_cover,    \* the depth argument, or "None"
    soil_params,            \* value returned by convert_slope_to_soil_params, or "None"
    \* ---- slope screening (SlopeStabilityAnalyzer / PyGeoStudioAnalyzer) ----
    pygeostudio_analyzer,   \* SlopeStabilityAnalyzer.pygeostudio_analyzer after __init__
    slope_result,           \* last SlopeAnalysisResult of analyze_configuration, or "None"
    analysis_priority,      \* last value of _get_analysis_priority, or "None"
    assessment,             \* spring_results last assessed with the priority_level and
                            \* analysis_recommendation derived from it, or None
    solver_status,          \* "solved" / "failed": how the solve behind slope_result went
    \* ---- aggregation (IntegratedAnalysisEngine) ----
    slope_results,          \* argument of integrate_analyses
    slope_configs,          \* argument of integrate_analyses
    pipeline_configs,       \* argument of integrate_analyses
    excel_status,           \* what the Excel workbook does when used
    integrated_results,     \* IntegratedAnalysisEngine.integrated_results
    returned,               \* what the last integrate_analyses call returned / raised
    decision_matrix,        \* rows of the last create_comprehensive_decision_matrix
    \* ---- manual-formula stress engine (EfficientStaticValuesCalculator) ----
    pipe_params,            \* pipe_params argument of calculate_soil_springs_results
    soil_layer,             \* soil_layer argument of calculate_soil_springs_results
    springs_output,         \* its returned dict, "ZeroDivisionError", or "None"
    \* ---- configuration generators and parameter sweeps ----
    parameters,             \* the ProjectParameters / parameter ranges handed in
    generator,              \* which generator was called, or "None"
    configurations,         \* the list it returned or the exception it raised
    \* ---- Excel automation (SoilSpringsAnalyzer) ----
    app,                    \* SoilSpringsAnalyzer.app: "None" or the xlwings App
    wb,                     \* SoilSpringsAnalyzer.wb: "None" or the open Book
    excel_running,          \* Excel applications started and not yet quit
    integrate_pc,           \* where the integrate_analyses call stands
    \* ---- batch analysis (SlopeStabilityAnalyzer) ----
    analyzer_results,       \* SlopeStabilityAnalyzer.results
    batch_returned,         \* what the last batch_analyze call returned, or None
    analysis_log,           \* per batch_analyze call so far: its configurations,
                            \* each with what analysing it did
    slope_decision_matrix,  \* rows of the last create_decision_matrix, or None
    \* ---- workflow (AutomatedDecisionWorkflow) ----
    workflow_pc,            \* the step the running workflow method is at
    generate_plots,         \* its generate_plots argument
    detailed_slope_results, \* its local list of the flagged slope results
    integrate_calls,        \* how often it has called integrate_analyses
    workflow_returned,      \* what it returned or raised, or None
    \* ---- GeoStudio command line (GeoStudioCLI) ----
    cli_files,              \* the files and the GeoStudio run a call meets
    cli_returned,           \* what run_xml_analysis returned, or None
    \* ---- parameter input (ParameterInputManager) ----
    default_parameters,     \* the object self.default_parameters refers to
    params_returned,        \* what the last input method returned, or None
    param_log               \* the input methods called so far, in order

layer_vars    == <<soil_layers, pipe_depth_of_cover, soil_params>>
classify_vars == <<pygeostudio_analyzer, slope_result, analysis_priority, assessment,
                   solver_status>>
integrate_vars == <<slope_results, slope_configs, pipeline_configs, excel_status,
                    integrated_results, returned, decision_matrix>>
engine_vars   == <<pipe_params, soil_layer, springs_output>>
sweep_vars    == <<parameters, generator, configurations>>
excel_vars    == <<app, wb, excel_running, integrate_pc>>
batch_vars    == <<analyzer_results, batch_returned, analysis_log, slope_decision_matrix>>
run_vars      == <<workflow_pc, generate_plots, detailed_slope_results, integrate_calls,
                   workflow_returned>>
cli_vars      == <<cli_files, cli_returned>>
param_vars    == <<default_parameters, params_returned, param_log>>
tool_vars     == <<cli_vars, param_vars>>
workflow_vars == <<excel_vars, batch_vars, run_vars, tool_vars>>
vars == <<layer_vars, classify_vars, integrate_vars, engine_vars, sweep_vars, workflow_vars>>

None    == "None"
NoneRec == [kind |-> "None"]
\* pipe_depth_of_cover: float = None
NoDepth == -1

\* how a call ends: with the returned list, or with the exception it raises
ReturnList(value) == [kind |-> "list", value |-> value]
Raise(error)      == [kind |-> "raise", error |-> error]

(***************************************************************************)
(* Bounds of the model.                                                    *)
(***************************************************************************)
MaxLayers == 3      \* longest soil_layers list looked up
MaxThick  == 2      \* largest layer thickness
MaxDepth  == 7      \* largest depth argument
MaxFosDelta == 1    \* Factor-of-Safety samples lie within this many thousandths of a threshold
MaxSlopeResults == 2    \* longest slope_results list handed to integrate_analyses
MaxPipelines == 6       \* longest pipeline_configs list handed to integrate_analyses

-----------------------------------------------------------------------------
(***************************************************************************)
(* Helpers on sequences.                                                   *)
(***************************************************************************)
\* sum(layer.thickness for layer in layers[:k])
RECURSIVE SumThickness(_, _)
SumThickness(layers, k) ==
    IF k = 0 THEN 0 ELSE SumThickness(layers, k - 1) + layers[k].thickness

-----------------------------------------------------------------------------
(***************************************************************************)
(* Soil stratigraphy: SoilLayer and convert_slope_to_soil_params.          *)
(***************************************************************************)
\* SoilLayer dataclass
SoilLayer(name, unit_weight, cohesion_total, cohesion_effective, friction_angle, thickness) ==
    [name               |-> name,
     unit_weight        |-> unit_weight,
     cohesion_total     |-> cohesion_total,
     cohesion_effective |-> cohesion_effective,
     friction_angle     |-> friction_angle,
     thickness          |-> thickness]

\* The i-th layer of a looked-up stratigraphy, in the pattern of the layers of
\* test_soil_layer_selection_edge_cases: every layer differs from every other
\* in name and in each property.
TestLayer(i, t) ==
    SoilLayer(ToString(i), 115 + 5 * i, 100 * (i + 1), 50 * (i + 1), 20 + 5 * i, t)

\* All stratigraphies of n layers with thicknesses in 1..MaxThick.
Stratigraphies(n) ==
    { [i \in 1..n |-> TestLayer(i, th[i])] : th \in [1..n -> 1..MaxThick] }

SoilSpringParameters(phi, c, uw, label) ==
    [friction_angle |-> phi, cohesion |-> c, unit_weight |-> uw, soil_type |-> label]

\* soil_type labels: f"{name} (at {d} ft depth)", f"{name} (extrapolated to {d} ft depth)",
\* the bare layer name, "Weighted average: ..." and "Default".
LabelAt(layer, d)           == [kind |-> "at", name |-> layer.name, depth |-> d]
LabelExtrapolated(layer, d) == [kind |-> "extrapolated", name |-> layer.name, depth |-> d]
LabelName(layer)            == [kind |-> "name", name |-> layer.name]
LabelWeighted(layers)       ==
    [kind |-> "weighted", name |-> SubSeq([i \in 1..Len(layers) |-> layers[i].name],
                                           1, IF Len(layers) < 2 THEN Len(layers) ELSE 2)]
LabelDefault                == [kind |-> "Default"]

\* sum(prop(layer) * layer.thickness for layer in layers[:k]), prop given as a field name
RECURSIVE WeightedSum(_, _, _)
WeightedSum(layers, k, f) ==
    IF k = 0 THEN 0
    ELSE WeightedSum(layers, k - 1, f) + layers[k][f] * layers[k].thickness

\* A plausible slip: current_depth is never advanced.
LayerWalkNoAdvance(layers, d, k, cur) ==
    IF cur <= d /\ d <= cur + layers[1].thickness
    THEN SoilSpringParameters(layers[1].friction_angle, layers[1].cohesion_effective,
                              layers[1].unit_weight, LabelAt(layers[1], d))
    ELSE LET deepest_layer == layers[Len(layers)]
         IN  SoilSpringParameters(deepest_layer.friction_angle,
                                  deepest_layer.cohesion_effective,
                                  deepest_layer.unit_weight,
                                  LabelAt(deepest_layer, d))

\* The for loop of convert_slope_to_soil_params from layer k on, current_depth = cur.
RECURSIVE LayerWalk(_, _, _, _)
LayerWalk(layers, d, k, cur) ==
    IF k > Len(layers)
    THEN LET deepest_layer == layers[Len(layers)]
         IN  SoilSpringParameters(deepest_layer.friction_angle,
                                  deepest_layer.cohesion_effective,
                                  deepest_layer.unit_weight,
                                  LabelExtrapolated(deepest_layer, d))
    ELSE IF cur <= d /\ d <= cur + layers[k].thickness
         THEN SoilSpringParameters(layers[k].friction_angle,
                                   layers[k].cohesion_effective,
                                   layers[k].unit_weight,
                                   LabelAt(layers[k], d))
         ELSE LayerWalk(layers, d, k + 1, cur + layers[k].thickness)

\* A plausible slip: the empty-list default is applied only on the branch
\* without a depth, so a depth with no layers reaches layers[-1].
convert_slope_to_soil_params_late_default(layers, d) ==
    IF d # NoDepth
    THEN IF Len(layers) = 0
         THEN [kind |-> "raise", error |-> "IndexError"]
         ELSE LayerWalk(layers, d, 1, 0)
    ELSE IF Len(layers) = 0
    THEN SoilSpringParameters(30, 100, 125, LabelDefault)
    ELSE SoilSpringParameters(layers[1].friction_angle, layers[1].cohesion_effective,
                              layers[1].unit_weight, LabelName(layers[1]))

\* IntegratedAnalysisEngine.convert_slope_to_soil_params(slope_config, pipe_depth_of_cover)
convert_slope_to_soil_params(layers, d) ==
    IF Len(layers) = 0
    THEN SoilSpringParameters(30, 100, 125, LabelDefault)
    ELSE IF d # NoDepth
    THEN LayerWalk(layers, d, 1, 0)
    ELSE LET total_thickness == SumThickness(layers, Len(layers))
         IN  IF total_thickness = 0
             THEN SoilSpringParameters(layers[1].friction_angle,
                                       layers[1].cohesion_effective,
                                       layers[1].unit_weight, LabelName(layers[1]))
             ELSE \* true division in the code; whole units here
                  SoilSpringParameters(
                      WeightedSum(layers, Len(layers), "friction_angle") \div total_thickness,
                      WeightedSum(layers, Len(layers), "cohesion_effective") \div total_thickness,
                      WeightedSum(layers, Len(layers), "unit_weight") \div total_thickness,
                      LabelWeighted(layers))

-----------------------------------------------------------------------------
(***************************************************************************)
(* Slope screening: SlopeAnalysisResult, the two _requires_detailed_       *)
(* analysis methods, analyze_configuration and the priority functions.     *)
(***************************************************************************)
Min(a, b) == IF a < b THEN a ELSE b

\* Factor-of-Safety samples, in thousandths: 0, 2.5 and the neighbourhood of
\* every threshold the code compares with.
FosValues ==
    {0, 2500} \cup { m + d : m \in {1000, 1200, 1500, 2000},
                             d \in (0 - MaxFosDelta)..MaxFosDelta }

\* SlopeAnalysisResult(config_id, total_stress_fos, effective_stress_fos,
\* critical_slip_surface, requires_detailed_analysis).  The slip surface is
\* "empty" for {}, "extracted" for the dict of _extract_slip_surface and
\* "generated" for the dict of _generate_realistic_failure_surface.
SlopeAnalysisResult(id, total_fos, effective_fos, slip_surface, requires_detailed) ==
    [config_id                  |-> id,
     total_stress_fos           |-> total_fos,
     effective_stress_fos       |-> effective_fos,
     critical_slip_surface      |-> slip_surface,
     requires_detailed_analysis |-> requires_detailed]

\* A plausible slip: the marginal band 1.5-2.0 is not escalated.
requires_detailed_analysis_standard_only(total_fos, effective_fos) ==
    Min(total_fos, effective_fos) < 1500

\* SlopeStabilityAnalyzer._requires_detailed_analysis
requires_detailed_analysis(total_fos, effective_fos) ==
    LET min_fos == Min(total_fos, effective_fos)
    IN  IF min_fos < 1500 THEN TRUE
        ELSE IF min_fos < 2000 THEN TRUE
        ELSE FALSE

\* PyGeoStudioAnalyzer._requires_detailed_analysis
pygeostudio_requires_detailed_analysis(total_fos, effective_fos) ==
    LET min_fos == Min(total_fos, effective_fos)
    IN  min_fos < 1500

\* PyGeoStudioAnalyzer._extract_factor_of_safety: a value that is missing or
\* falsy (0 here) is replaced by the default 1.5 / 1.3.
extract_factor_of_safety(solver_total, solver_effective) ==
    <<IF solver_total = 0 THEN 1500 ELSE solver_total,
      IF solver_effective = 0 THEN 1300 ELSE solver_effective>>

\* PyGeoStudioAnalyzer.analyze_slope_configuration; raised = an exception inside
\* its try block (template load, model update).
analyze_slope_configuration(id, raised, solver_total, solver_effective) ==
    IF raised
    THEN SlopeAnalysisResult(id, 1500, 1300, "empty", TRUE)
    ELSE LET fos == extract_factor_of_safety(solver_total, solver_effective)
         IN  SlopeAnalysisResult(id, fos[1], fos[2], "extracted",
                 pygeostudio_requires_detailed_analysis(fos[1], fos[2]))

\* the draws random.uniform(0.8, 2.5) and random.uniform(0.7, 2.2) that
\* _run_geostudio_analysis returns when the run fails or cannot be imported
RandomTotalFos     == { v \in FosValues : 800 <= v /\ v <= 2500 }
RandomEffectiveFos == { v \in FosValues : 700 <= v /\ v <= 2200 }

\* SlopeStabilityAnalyzer.analyze_configuration.  analyzer is
\* self.pygeostudio_analyzer; (total_fos, effective_fos) is what the solver run
\* of the path taken hands back: on the XML/CLI path the parsed results of a
\* successful run, or the random draws of a failed one.
analyze_configuration(analyzer, id, raised, total_fos, effective_fos) ==
    IF analyzer = "PyGeoStudioAnalyzer"
    THEN analyze_slope_configuration(id, raised, total_fos, effective_fos)
    ELSE SlopeAnalysisResult(id, total_fos, effective_fos, "generated",
                             requires_detailed_analysis(total_fos, effective_fos))

\* A plausible slip: <= instead of < at the tier boundaries.
get_analysis_priority_inclusive(result) ==
    LET min_fos == Min(result.total_stress_fos, result.effective_stress_fos)
    IN  IF min_fos <= 1000 THEN "Critical"
        ELSE IF min_fos <= 1200 THEN "High"
        ELSE IF min_fos <= 1500 THEN "Medium"
        ELSE "Low"

\* SlopeStabilityAnalyzer._get_analysis_priority
get_analysis_priority(result) ==
    LET min_fos == Min(result.total_stress_fos, result.effective_stress_fos)
    IN  IF min_fos < 1000 THEN "Critical"
        ELSE IF min_fos < 1200 THEN "High"
        ELSE IF min_fos < 1500 THEN "Medium"
        ELSE "Low"

\* dict.get(key, default) on a dict modelled as a function of its keys
DictGet(d, key, default) == IF key \in DOMAIN d THEN d[key] ELSE default

\* spring_results dicts handed to the priority functions: with the key
\* 'exceeds_allowable' (either value) or without it.
EmptyDict == [k \in {} |-> FALSE]
SpringResultsSamples ==
    { [exceeds_allowable |-> b] : b \in BOOLEAN } \cup { EmptyDict }

\* A plausible slip: the pipeline exceedance is not folded into the level.
get_priority_level_slope_only(result, springs) ==
    LET min_fos == Min(result.total_stress_fos, result.effective_stress_fos)
    IN  IF min_fos < 1000 THEN 1
        ELSE IF min_fos < 1200 THEN 2
        ELSE IF min_fos < 1500 THEN 3
        ELSE 4

\* IntegratedAnalysisEngine._get_priority_level
get_priority_level(result, springs) ==
    LET min_fos == Min(result.total_stress_fos, result.effective_stress_fos)
        exceeds_allowable == DictGet(springs, "exceeds_allowable", FALSE)
    IN  IF min_fos < 1000 \/ exceeds_allowable THEN 1
        ELSE IF min_fos < 1200 THEN 2
        ELSE IF min_fos < 1500 THEN 3
        ELSE 4

\* A plausible slip: the exceedance test comes before the stability test.
get_recommendation_exceeds_first(result, springs) ==
    LET min_fos == Min(result.total_stress_fos, result.effective_stress_fos)
        exceeds_allowable == DictGet(springs, "exceeds_allowable", FALSE)
    IN  IF exceeds_allowable THEN "HIGH PRIORITY"
        ELSE IF min_fos < 1000 THEN "CRITICAL"
        ELSE IF min_fos < 1500 THEN "MEDIUM PRIORITY"
        ELSE IF min_fos < 2000 THEN "LOW PRIORITY"
        ELSE "ACCEPTABLE"

\* IntegratedAnalysisEngine._get_recommendation; each message is named by its
\* leading category.
get_recommendation(result, springs) ==
    LET min_fos == Min(result.total_stress_fos, result.effective_stress_fos)
        exceeds_allowable == DictGet(springs, "exceeds_allowable", FALSE)
    IN  IF min_fos < 1000 THEN "CRITICAL"
        ELSE IF exceeds_allowable THEN "HIGH PRIORITY"
        ELSE IF min_fos < 1500 THEN "MEDIUM PRIORITY"
        ELSE IF min_fos < 2000 THEN "LOW PRIORITY"
        ELSE "ACCEPTABLE"

-----------------------------------------------------------------------------
(***************************************************************************)
(* Aggregation: IntegratedAnalysisEngine.                                  *)
(***************************************************************************)
\* SlopeConfiguration dataclass (geometry and groundwater are not read by the
\* aggregation)
\* SlopeGeometry dataclass: points is its only field (slope_angle and
\* slope_height are read-only properties), so the generated __init__ raises
\* TypeError for any other keyword
SlopeGeometry(kwargs) ==
    IF DOMAIN kwargs = {"points"}
    THEN [kind |-> "SlopeGeometry", points |-> kwargs.points]
    ELSE Raise("TypeError")

\* SlopeGeometry.create_specified_slope(): the six fixed points
create_specified_slope == SlopeGeometry([points |-> "specified"])

\* SlopeConfiguration dataclass: four fields, no __post_init__
SlopeConfiguration(id, geometry, layers, groundwater_depth) ==
    [config_id         |-> id,
     geometry          |-> geometry,
     soil_layers       |-> layers,
     groundwater_depth |-> groundwater_depth]

\* PipelineConfiguration dataclass of soil_springs_integration
PipelineConfiguration(od, wt, grade, smys, doc, length, coating, pressure, direction) ==
    [pipe_od            |-> od,
     pipe_wt            |-> wt,
     pipe_grade         |-> grade,
     pipe_smys          |-> smys,
     pipe_doc           |-> doc,
     pipe_length_in_pgd |-> length,
     pipe_coating       |-> coating,
     internal_pressure  |-> pressure,
     pgd_direction      |-> direction]

\* The i-th configuration (i >= 1) appended by create_pipeline_configurations:
\* direction innermost, then PGD length, pressure, depth of cover, grade, size.
PipelineConfigAt(i) ==
    LET n          == i - 1
        pipe_sizes == << <<16000, 375>>, <<20000, 500>>, <<24000, 500>>,
                         <<30000, 625>>, <<36000, 750>> >>
        pipe_grades     == <<"X-52", "X-60", "X-65", "X-70">>
        depths_of_cover == <<4, 6, 8, 10, 12, 15>>
        pressures       == <<1000, 1200, 1440, 1600>>
        pgd_lengths     == <<5, 10, 15, 20, 30, 50>>
        directions      == <<"Parallel", "Perpendicular">>
        size  == pipe_sizes[((n \div 1152) % 5) + 1]
        grade == pipe_grades[((n \div 288) % 4) + 1]
    IN  PipelineConfiguration(
            size[1], size[2], grade,
            IF grade = "X-52" THEN 52000 ELSE IF grade = "X-60" THEN 60000
            ELSE IF grade = "X-65" THEN 65000 ELSE 70000,
            depths_of_cover[((n \div 48) % 6) + 1],
            pgd_lengths[((n \div 2) % 6) + 1],
            "FBE",
            pressures[((n \div 12) % 4) + 1] * 1000,
            directions[(n % 2) + 1])

\* the first n configurations of create_pipeline_configurations
PipelineConfigList(n) == [i \in 1..n |-> PipelineConfigAt(i)]

\* generate_slope_configurations: configuration 1, weak soil scenario
SlopeConfigList ==
    << SlopeConfiguration(1, create_specified_slope,
                          << SoilLayer("Slope Material", 115, 100, 50, 15, 20),
                             SoilLayer("Foundation Material", 120, 200, 100, 25, 30) >>,
                          140) >>

\* slope results handed to the aggregation: any flag with any FoS pair for
\* the configuration of SlopeConfigList, and one result whose config_id has no
\* configuration
SlopeResultSamples ==
    { SlopeAnalysisResult(1, t, e, "generated", f) :
        t \in {999, 1004, 2000}, e \in {1002, 2500}, f \in BOOLEAN }
    \cup { SlopeAnalysisResult(2, 999, 1002, "generated", TRUE) }

SeqsUpTo(S, n) == UNION { [1..k -> S] : k \in 0..n }

\* next((config for config in slope_configs if config.config_id == id), None)
RECURSIVE FindConfig(_, _, _)
FindConfig(configs, id, k) ==
    IF k > Len(configs) THEN NoneRec
    ELSE IF configs[k].config_id = id THEN configs[k]
    ELSE FindConfig(configs, id, k + 1)

\* pipeline_configs[:5]
DemoSlice(configs) == SubSeq(configs, 1, Min(Len(configs), 5))

\* A plausible slip: the admission test is dropped.
AdmittedAll(result) == TRUE

\* slope_result.requires_detailed_analysis or min_fos < 2.0
Admitted(result) ==
    result.requires_detailed_analysis
        \/ Min(result.total_stress_fos, result.effective_stress_fos) < 2000

IntegratedAnalysisResult(id, fos, pipeline_config, params, springs, rec, level) ==
    [config_id                  |-> id,
     slope_fos                  |-> fos,
     pipeline_config            |-> pipeline_config,
     soil_params                |-> params,
     longitudinal_force         |-> DictGet(springs, "longitudinal_force", 0),
     axial_stress               |-> DictGet(springs, "axial_stress", 0),
     remaining_allowable_stress |-> DictGet(springs, "remaining_allowable_stress", 0),
     allowable_length           |-> DictGet(springs, "allowable_length", 0),
     exceeds_allowable          |-> DictGet(springs, "exceeds_allowable", FALSE),
     analysis_recommendation    |-> rec,
     priority_level             |-> level]

\* mock_results of _create_mock_integrated_results
MockResults(pipeline_config, min_fos) ==
    [longitudinal_force         |-> (1500 * pipeline_config.pipe_od) \div 20,
     axial_stress               |-> (300 * pipeline_config.pipe_od) \div 20,
     remaining_allowable_stress |-> 15000000 - (300 * pipeline_config.pipe_od) \div 20,
     allowable_length           |-> 150000000 \div (IF 2500 - min_fos > 1000
                                                    THEN 2500 - min_fos ELSE 1000),
     exceeds_allowable          |-> min_fos < 1200]

\* the inner for loop of _create_mock_integrated_results over pipeline k.. of
\* the slice, for one admitted slope result
RECURSIVE MockPipelineLoop(_, _, _, _)
MockPipelineLoop(result, config, slice, k) ==
    IF k > Len(slice) THEN <<>>
    ELSE LET pipeline_config == slice[k]
             min_fos      == Min(result.total_stress_fos, result.effective_stress_fos)
             params       == convert_slope_to_soil_params(config.soil_layers,
                                                          pipeline_config.pipe_doc)
             mock_results == MockResults(pipeline_config, min_fos)
         IN  << IntegratedAnalysisResult(
                    <<result.config_id, pipeline_config.pipe_od,
                      pipeline_config.pgd_direction>>,
                    min_fos, pipeline_config, params, mock_results,
                    get_recommendation(result, mock_results),
                    get_priority_level(result, mock_results)) >>
             \o MockPipelineLoop(result, config, slice, k + 1)

\* IntegratedAnalysisEngine._create_mock_integrated_results, from slope result k on
RECURSIVE create_mock_integrated_results(_, _, _, _)
create_mock_integrated_results(results, configs, pipelines, k) ==
    IF k > Len(results) THEN <<>>
    ELSE LET config == FindConfig(configs, results[k].config_id, 1)
         IN  (IF config = NoneRec THEN <<>>
              ELSE IF Admitted(results[k])
              THEN MockPipelineLoop(results[k], config, DemoSlice(pipelines), 1)
              ELSE <<>>)
             \o create_mock_integrated_results(results, configs, pipelines, k + 1)

\* dicts _read_excel_outputs can hand back (the workbook decides the values)
ExcelOutputSamples ==
    { [longitudinal_force         |-> 1200000,
       axial_stress               |-> 240000,
       remaining_allowable_stress |-> 14760000,
       allowable_length           |-> 100000,
       exceeds_allowable          |-> b] : b \in BOOLEAN }

\* The inner for loop of integrate_analyses over pipeline k.. of the slice, for
\* one admitted slope result; springs is what analyze_pipeline_configuration
\* returns ({} after an error).  Building the config_id reads
\* pipeline_config.pgd_path, which PipelineConfiguration does not have.
RECURSIVE ExcelPipelineLoop(_, _, _, _, _)
ExcelPipelineLoop(result, config, slice, k, springs) ==
    IF k > Len(slice) THEN ReturnList(<<>>)
    ELSE IF DOMAIN springs = {} THEN ExcelPipelineLoop(result, config, slice, k + 1, springs)
    ELSE IF "pgd_path" \notin DOMAIN slice[k] THEN Raise("AttributeError")
    ELSE LET pipeline_config == slice[k]
             min_fos == Min(result.total_stress_fos, result.effective_stress_fos)
             params  == convert_slope_to_soil_params(config.soil_layers,
                                                     pipeline_config.pipe_doc)
             rest    == ExcelPipelineLoop(result, config, slice, k + 1, springs)
         IN  IF rest.kind = "raise" THEN rest
             ELSE ReturnList(
                    << IntegratedAnalysisResult(
                           <<result.config_id, pipeline_config.pipe_od,
                             pipeline_config.pgd_path>>,
                           min_fos, pipeline_config, params, springs,
                           get_recommendation(result, springs),
                           get_priority_level(result, springs)) >>
                    \o rest.value)

\* the for loop of integrate_analyses (Excel open) from slope result k on
RECURSIVE ExcelLoop(_, _, _, _, _)
ExcelLoop(results, configs, pipelines, k, springs) ==
    IF k > Len(results) THEN ReturnList(<<>>)
    ELSE LET config == FindConfig(configs, results[k].config_id, 1)
             here   == IF config = NoneRec THEN ReturnList(<<>>)
                       ELSE IF Admitted(results[k])
                       THEN ExcelPipelineLoop(results[k], config, DemoSlice(pipelines),
                                              1, springs)
                       ELSE ReturnList(<<>>)
         IN  IF here.kind = "raise" THEN here
             ELSE LET rest == ExcelLoop(results, configs, pipelines, k + 1, springs)
                  IN  IF rest.kind = "raise" THEN rest
                      ELSE ReturnList(here.value \o rest.value)

\* IntegratedAnalysisEngine.integrate_analyses: what it returns and what
\* self.integrated_results is afterwards.  status "unavailable": open_excel
\* raises; otherwise springs is the dict every spring analysis returns.
integrate_analyses(status, springs, stored, results, configs, pipelines) ==
    IF status = "unavailable"
    THEN [returned |-> ReturnList(create_mock_integrated_results(results, configs,
                                                                 pipelines, 1)),
          integrated_results |-> stored]
    ELSE LET out == ExcelLoop(results, configs, pipelines, 1, springs)
         IN  IF out.kind = "raise"
             THEN [returned |-> out, integrated_results |-> stored]
             ELSE [returned |-> out, integrated_results |-> out.value]

\* round(x, n) on a scaled value: to the nearest multiple of step; a decimal
\* tie is decided in Python by the binary expansion of x, here by tie_up.
Round(x, step, tie_up) ==
    LET r  == x % step
        lo == x - r
    IN  IF 2 * r < step THEN lo
        ELSE IF 2 * r > step THEN lo + step
        ELSE IF tie_up THEN lo + step ELSE lo

\* one row dict of create_comprehensive_decision_matrix; index is the row's
\* DataFrame index label (its position in integrated_results, from 1 here).
\* Slope_FoS is rounded to 2 decimals, the stress and the length to 1;
\* friction angle and cohesion are whole numbers here, which round(x, 1) and
\* round(x, 0) leave as they are.
MatrixRow(result, index, tie_up) ==
    [index               |-> index,
     Config_ID           |-> result.config_id,
     Slope_FoS           |-> Round(result.slope_fos, 10, tie_up),
     Pipe_OD_in          |-> result.pipeline_config.pipe_od,
     Pipe_Grade          |-> result.pipeline_config.pipe_grade,
     DOC_ft              |-> result.pipeline_config.pipe_doc,
     PGD_Direction       |-> result.pipeline_config.pgd_direction,
     PGD_Length_ft       |-> result.pipeline_config.pipe_length_in_pgd,
     Friction_Angle      |-> result.soil_params.friction_angle,
     Cohesion_psf        |-> result.soil_params.cohesion,
     Axial_Stress_psi    |-> Round(result.axial_stress, 100, tie_up),
     Allowable_Length_ft |-> Round(result.allowable_length, 100, tie_up),
     Exceeds_Allowable   |-> result.exceeds_allowable,
     Priority_Level      |-> result.priority_level,
     Recommendation      |-> result.analysis_recommendation]

\* row a sorts at or before row b under ['Priority_Level', 'Slope_FoS']
RowLE(a, b) ==
    \/ a.Priority_Level < b.Priority_Level
    \/ a.Priority_Level = b.Priority_Level /\ a.Slope_FoS <= b.Slope_FoS

\* insert row after every row that sorts at or before it (the sort is stable)
RECURSIVE InsertRow(_, _)
InsertRow(sorted, row) ==
    IF Len(sorted) = 0 THEN <<row>>
    ELSE IF RowLE(sorted[Len(sorted)], row) THEN Append(sorted, row)
    ELSE Append(InsertRow(SubSeq(sorted, 1, Len(sorted) - 1), row), sorted[Len(sorted)])

\* df.sort_values(['Priority_Level', 'Slope_FoS']) of the first k rows
RECURSIVE SortValues(_, _)
SortValues(rows, k) ==
    IF k = 0 THEN <<>> ELSE InsertRow(SortValues(rows, k - 1), rows[k])

\* IntegratedAnalysisEngine.create_comprehensive_decision_matrix
create_comprehensive_decision_matrix(stored, tie_up) ==
    IF Len(stored) = 0
    THEN [kind |-> "DataFrame", rows |-> <<>>]
    ELSE LET data == [i \in 1..Len(stored) |-> MatrixRow(stored[i], i, tie_up)]
         IN  [kind |-> "DataFrame", rows |-> SortValues(data, Len(data))]

-----------------------------------------------------------------------------
(***************************************************************************)
(* Manual-formula stress engine                                            *)
(* (EfficientStaticValuesCalculator.calculate_soil_springs_results).       *)
(* Scaled integers: inches in thousandths, square inches in millionths,    *)
(* psf, psi and lb/ft in thousandths, tan and Kp in millionths, feet of    *)
(* cover and of pipe length as whole feet, allowable length in             *)
(* thousandths of a foot.  A float division becomes MulDiv, which rounds   *)
(* to the nearest unit, so a stress agrees with the float computation to   *)
(* within a few thousandths of a psi.                                      *)
(***************************************************************************)
Max(a, b) == IF a > b THEN a ELSE b

\* <<q, r>> with r0 * b = q * c + r and 0 <= r < c, for 0 <= r0 < c, b >= 0;
\* b is taken digit by digit so that no intermediate value leaves 32 bits
RECURSIVE MulDivQR(_, _, _)
MulDivQR(r0, b, c) ==
    IF b = 0 THEN <<0, 0>>
    ELSE LET p == MulDivQR(r0, b \div 10, c)
             v == 10 * p[2] + r0 * (b % 10)
         IN  <<10 * p[1] + (v \div c), v % c>>

\* a * b / c rounded to the nearest integer (a, b >= 0, c > 0)
MulDiv(a, b, c) ==
    LET p == MulDivQR(a % c, b, c)
    IN  (a \div c) * b + p[1] + (IF 2 * p[2] >= c THEN 1 ELSE 0)

\* math.tan(math.radians(friction_angle)), in millionths
TanDegrees(friction_angle) ==
    CASE friction_angle = 0  -> 0
      [] friction_angle = 15 -> 267949
      [] friction_angle = 20 -> 363970
      [] friction_angle = 25 -> 466308
      [] friction_angle = 30 -> 577350
      [] friction_angle = 35 -> 700208

\* math.tan(math.radians(45 + friction_angle/2))**2, in millionths
PassiveCoefficient(friction_angle) ==
    CASE friction_angle = 0  -> 1000000
      [] friction_angle = 15 -> 1698396
      [] friction_angle = 20 -> 2039607
      [] friction_angle = 25 -> 2463913
      [] friction_angle = 30 -> 3000000
      [] friction_angle = 35 -> 3690172

\* smys_values.get(pipe_smys, 42000)
smys_values ==
    [g \in {"X-42", "X-52", "X-60", "X-65", "X-70"} |->
        CASE g = "X-42" -> 42000
          [] g = "X-52" -> 52000
          [] g = "X-60" -> 60000
          [] g = "X-65" -> 65000
          [] g = "X-70" -> 70000]

\* the pipe_params dict of one call
PipeParams(pipe_od, pipe_wt, pipe_smys, pipe_doc, pipe_length, pipe_coating, internal_pressure, pgd_path) ==
    [k \in {"Pipe OD (in)", "Pipe wt (in)", "Pipe SMYS (psi)", "Pipe DOC (ft)",
            "Length of Pipe in PGD (ft)", "Pipe Coating", "Internal Pressure (psi)",
            "PGD Path (perpendicular/parallel to pipe)"} |->
        CASE k = "Pipe OD (in)" -> pipe_od
          [] k = "Pipe wt (in)" -> pipe_wt
          [] k = "Pipe SMYS (psi)" -> pipe_smys
          [] k = "Pipe DOC (ft)" -> pipe_doc
          [] k = "Length of Pipe in PGD (ft)" -> pipe_length
          [] k = "Pipe Coating" -> pipe_coating
          [] k = "Internal Pressure (psi)" -> internal_pressure
          [] k = "PGD Path (perpendicular/parallel to pipe)" -> pgd_path]

\* The local variables of calculate_soil_springs_results when it reaches its
\* return statement, or the exception it raises on the way (a float division
\* by zero: the wall area, then the wall thickness).
soil_springs_locals(pipe, soil) ==
    LET pipe_od           == DictGet(pipe, "Pipe OD (in)", 16000)
        pipe_wt           == DictGet(pipe, "Pipe wt (in)", 375)
        pipe_smys         == DictGet(pipe, "Pipe SMYS (psi)", "X-42")
        pipe_doc          == DictGet(pipe, "Pipe DOC (ft)", 10)
        pipe_length       == DictGet(pipe, "Length of Pipe in PGD (ft)", 10)
        pipe_coating      == DictGet(pipe, "Pipe Coating", "Rough Steel")
        internal_pressure == DictGet(pipe, "Internal Pressure (psi)", 1500000)
        pgd_path          == DictGet(pipe,
                                     "PGD Path (perpendicular/parallel to pipe)",
                                     "Parallel")
        friction_angle    == soil.friction_angle
        cohesion          == soil.cohesion
        unit_weight       == soil.unit_weight
        smys_psi          == DictGet(smys_values, pipe_smys, 42000)
        outer_radius      == pipe_od \div 2
        inner_radius      == outer_radius - pipe_wt
        pipe_area_sqin    == MulDiv(outer_radius * outer_radius
                                      - inner_radius * inner_radius, 314159, 100000)
        kp                == PassiveCoefficient(friction_angle)
        friction_coeff    == TanDegrees(friction_angle)
        normal_stress     == unit_weight * pipe_doc
        adhesion_factor   == IF cohesion > 0
                             THEN Min(1000000, (1000000 + cohesion) \div 2)
                             ELSE 1000000
        longitudinal_force ==
            IF pgd_path = "Parallel"
            THEN MulDiv(MulDiv(MulDiv(friction_coeff, normal_stress, 1000)
                                 + MulDiv(cohesion, adhesion_factor, 1000000),
                               314159, 100000),
                        pipe_od, 12000)
            ELSE MulDiv(cohesion * 9, pipe_od, 12000)
                 + MulDiv(MulDiv(kp, (unit_weight * pipe_doc * pipe_doc) \div 2, 1000),
                          pipe_od, 12000)
        axial_stress      == MulDiv(longitudinal_force, pipe_length * 1000000,
                                    pipe_area_sqin)
        hoop_stress       == MulDiv(internal_pressure, inner_radius, pipe_wt)
        allowable_stress  == 720 * smys_psi
        \* twice total_applied_stress = axial_stress + 0.5 * hoop_stress
        total_applied_stress_x2 == 2 * axial_stress + hoop_stress
        remaining_allowable ==
            Max(0, (2 * allowable_stress - total_applied_stress_x2) \div 2)
        max_allowable_axial_x2 == 2 * allowable_stress - hoop_stress
        allowable_length  ==
            IF longitudinal_force > 0
            THEN IF max_allowable_axial_x2 > 0
                 THEN MulDiv(max_allowable_axial_x2 \div 2,
                             MulDiv(pipe_area_sqin, 1, 1000), longitudinal_force)
                 ELSE 0
            ELSE 1000000
        exceeds_allowable ==
            IF total_applied_stress_x2 > 2 * allowable_stress
            THEN "Exceeds" ELSE "Does Not Exceed"
    IN  IF pipe_area_sqin = 0 \/ pipe_wt = 0
        THEN Raise("ZeroDivisionError")
        ELSE [kind |-> "locals",
              pipe_od |-> pipe_od, pipe_wt |-> pipe_wt, pipe_smys |-> pipe_smys,
              pipe_doc |-> pipe_doc, pipe_length |-> pipe_length,
              pipe_coating |-> pipe_coating, internal_pressure |-> internal_pressure,
              pgd_path |-> pgd_path, friction_angle |-> friction_angle,
              cohesion |-> cohesion, unit_weight |-> unit_weight,
              longitudinal_force |-> longitudinal_force,
              axial_stress |-> axial_stress, hoop_stress |-> hoop_stress,
              allowable_stress |-> allowable_stress,
              total_applied_stress_x2 |-> total_applied_stress_x2,
              remaining_allowable |-> remaining_allowable,
              allowable_length |-> allowable_length,
              exceeds_allowable |-> exceeds_allowable]

\* the dict the return statement builds from the locals
SpringsDict(l, tie_up) ==
    [k \in {"Pipe OD (in)", "Pipe wt (in)", "Pipe SMYS (psi)", "Pipe DOC (ft)",
            "Length of Pipe in PGD (ft)", "Pipe Coating", "Internal Pressure (psi)",
            "Longitudinal Force (lb/ft)", "Axial Stress (psi)",
            "Remaining Allowable Stress (psi)", "Allowable Pipe Length in PGD (ft)",
            "Exceeds Allowable", "Soil Friction Angle (phi degrees)",
            "Soil Cohesion (c, psf)", "Soil Effective Unit Weight (gamma', psf)",
            "PGD Path (perpendicular/parallel to pipe)"} |->
        CASE k = "Pipe OD (in)" -> l.pipe_od
          [] k = "Pipe wt (in)" -> l.pipe_wt
          [] k = "Pipe SMYS (psi)" -> l.pipe_smys
          [] k = "Pipe DOC (ft)" -> l.pipe_doc
          [] k = "Length of Pipe in PGD (ft)" -> l.pipe_length
          [] k = "Pipe Coating" -> l.pipe_coating
          [] k = "Internal Pressure (psi)" -> l.internal_pressure
          [] k = "Longitudinal Force (lb/ft)" -> Round(l.longitudinal_force, 10, tie_up)
          [] k = "Axial Stress (psi)" -> Round(l.axial_stress, 10, tie_up)
          [] k = "Remaining Allowable Stress (psi)" ->
                 Round(l.remaining_allowable, 10, tie_up)
          [] k = "Allowable Pipe Length in PGD (ft)" ->
                 Round(l.allowable_length, 10, tie_up)
          [] k = "Exceeds Allowable" -> l.exceeds_allowable
          [] k = "Soil Friction Angle (phi degrees)" -> l.friction_angle
          [] k = "Soil Cohesion (c, psf)" -> l.cohesion
          [] k = "Soil Effective Unit Weight (gamma', psf)" -> l.unit_weight
          [] k = "PGD Path (perpendicular/parallel to pipe)" -> l.pgd_path]

\* EfficientStaticValuesCalculator.calculate_soil_springs_results
calculate_soil_springs_results(pipe, soil, tie_up) ==
    LET l == soil_springs_locals(pipe, soil)
    IN  IF l.kind = "raise" THEN l
        ELSE [kind |-> "dict", value |-> SpringsDict(l, tie_up)]

\* pipe_params handed to the engine: wall 0, thin, thick and (on the 4 in
\* pipe) as thick as the outer radius; a listed and an
\* unlisted grade; no pressure, a working pressure and one that brings the
\* total stress next to the allowable stress; and the dict without keys
PipeParamsSamples ==
    { PipeParams(od, wt, grade, doc, length, "FBE", pressure, path) :
        od \in {4000, 12000, 16000}, wt \in {0, 500, 2000},
        grade \in {"X-42", "X-70", "X-80"}, doc \in {4, 10}, length \in {10, 201},
        pressure \in {0, 1440000, 20189198},
        path \in {"Parallel", "Perpendicular"} }
    \cup { EmptyDict }

\* soil_layer dicts handed to the engine
SoilLayerSamples ==
    { [friction_angle |-> phi, cohesion |-> c, unit_weight |-> 125,
       name |-> "Layer"] : phi \in {0, 30}, c \in {0, 50000, 1000080} }

-----------------------------------------------------------------------------
(***************************************************************************)
(* Exact-Excel-formula stress engine                                       *)
(* (ExactSoilSpringsCalculator.calculate_exact_soil_springs), in the units *)
(* of the manual engine; angles of the coating roughness in tenths of a    *)
(* degree, wall areas in hundred-thousandths of a square inch.             *)
(***************************************************************************)
\* self.smys_lookup
smys_lookup ==
    [g \in {"Grade B", "X-42", "X-52", "X-60", "X-70"} |->
        CASE g = "Grade B" -> 35000
          [] g = "X-42" -> 42000
          [] g = "X-52" -> 52000
          [] g = "X-60" -> 60000
          [] g = "X-70" -> 70000]

\* self.roughness_lookup, in tenths
roughness_lookup ==
    [k \in {"Polyethylene", "Fusion Bonded Epoxy", "Smooth steel", "Rough Steel",
            "Coal Tar", "Concrete"} |->
        CASE k = "Polyethylene" -> 6
          [] k = "Fusion Bonded Epoxy" -> 6
          [] k = "Smooth steel" -> 7
          [] k = "Rough Steel" -> 8
          [] k = "Coal Tar" -> 9
          [] k = "Concrete" -> 10]

\* math.sin(math.radians(friction_angle)), in millionths
SinDegrees(friction_angle) ==
    CASE friction_angle = 0  -> 0
      [] friction_angle = 30 -> 500000

\* math.tan(math.radians(roughness_angle)), angle in tenths of a degree,
\* value in millionths
TanTenths(roughness_angle) ==
    CASE roughness_angle = 0   -> 0
      [] roughness_angle = 180 -> 324920
      [] roughness_angle = 210 -> 383864
      [] roughness_angle = 240 -> 445229
      [] roughness_angle = 270 -> 509525
      [] roughness_angle = 300 -> 577350

\* a * b / c for a of either sign
SignedMulDiv(a, b, c) == IF a >= 0 THEN MulDiv(a, b, c) ELSE 0 - MulDiv(0 - a, b, c)

\* D11: 0.608 - 0.123 x - 0.274 / (x^2 + 1) + 0.695 / (x^3 + 1) with
\* x = cohesion / 20.89 / 100, in millionths
ExactAdhesionFactor(cohesion) ==
    LET cohesion_norm == MulDiv(cohesion, 1000, 2089)
        square        == MulDiv(cohesion_norm, cohesion_norm, 1000000)
        cube          == MulDiv(square, cohesion_norm, 1000000)
    IN  608000 - MulDiv(123000, cohesion_norm, 1000000)
               - MulDiv(274000, 1000000, square + 1000000)
               + MulDiv(695000, 1000000, cube + 1000000)

\* The local variables of calculate_exact_soil_springs when it reaches its
\* return statement, or the exception it raises on the way (a float division
\* by zero in pressure_stress or in length_conversion_factor).
exact_soil_springs_locals(pipe, soil) ==
    LET pipe_od           == DictGet(pipe, "Pipe OD (in)", 16000)
        pipe_wt           == DictGet(pipe, "Pipe wt (in)", 375)
        pipe_smys         == DictGet(pipe, "Pipe SMYS (psi)", "X-42")
        pipe_doc          == DictGet(pipe, "Pipe DOC (ft)", 10)
        pipe_length       == DictGet(pipe, "Length of Pipe in PGD (ft)", 10)
        pipe_coating      == DictGet(pipe, "Pipe Coating", "Rough Steel")
        internal_pressure == DictGet(pipe, "Internal Pressure (psi)", 1500000)
        pgd_path          == DictGet(pipe, "PGD Path (perpendicular/parallel to pipe)",
                                     "Parallel")
        friction_angle    == soil.friction_angle
        cohesion          == soil.cohesion
        unit_weight       == soil.unit_weight
        smys_psi          == DictGet(smys_lookup, pipe_smys, 42000)
        roughness_coeff   == DictGet(roughness_lookup, pipe_coating, 6)
        \* in ten-thousandths of a foot
        height_to_center  == pipe_doc * 10000 + MulDiv(pipe_od, 10, 24)
        sin_factor        == 1000000 - SinDegrees(friction_angle)
        adhesion_factor   == ExactAdhesionFactor(cohesion)
        roughness_angle   == roughness_coeff * friction_angle
        friction_coefficient == TanTenths(roughness_angle)
        longitudinal_force ==
            MulDiv(MulDiv(MulDiv(cohesion, adhesion_factor, 1000000)
                            + MulDiv(MulDiv(height_to_center * unit_weight,
                                            1000000 + sin_factor, 10000000),
                                     friction_coefficient, 2000000),
                          3141593, 1000000),
                   pipe_od, 12000)
        transverse_force  == IF pgd_path = "Perpendicular"
                             THEN MulDiv(longitudinal_force, 3, 2)
                             ELSE longitudinal_force
        allowable_stress  == 540 * smys_psi
        pressure_stress   == MulDiv(internal_pressure, pipe_od, 4 * pipe_wt)
        remaining_allowable == allowable_stress - pressure_stress
        \* 2 * math.pi * pipe_od * pipe_wt; force_per_unit_stress cancels
        wall              == MulDiv(2 * pipe_od * pipe_wt, 3141593, 10000000)
        axial_stress      == MulDiv(longitudinal_force, pipe_length * 100000, wall)
        allowable_length  ==
            IF longitudinal_force > 0
            THEN SignedMulDiv(remaining_allowable, MulDiv(wall, 1, 100),
                              longitudinal_force)
            ELSE 1000000
        total_applied_stress == axial_stress + pressure_stress
        exceeds_allowable ==
            IF total_applied_stress > allowable_stress
            THEN "Exceeds" ELSE "Does Not Exceed"
    IN  IF pipe_wt = 0 \/ pipe_od = 0
        THEN Raise("ZeroDivisionError")
        ELSE [kind |-> "locals",
              pipe_od |-> pipe_od, pipe_wt |-> pipe_wt, pipe_smys |-> pipe_smys,
              pipe_doc |-> pipe_doc, pipe_length |-> pipe_length,
              pipe_coating |-> pipe_coating, internal_pressure |-> internal_pressure,
              pgd_path |-> pgd_path, friction_angle |-> friction_angle,
              cohesion |-> cohesion, unit_weight |-> unit_weight,
              longitudinal_force |-> transverse_force,
              axial_stress |-> axial_stress, hoop_stress |-> pressure_stress,
              allowable_stress |-> allowable_stress,
              total_applied_stress_x2 |-> 2 * total_applied_stress,
              remaining_allowable |-> remaining_allowable,
              allowable_length |-> allowable_length,
              exceeds_allowable |-> exceeds_allowable]

\* the dict the return statement builds: round(x, 6) changes nothing at a
\* resolution of thousandths
ExactSpringsDict(l) ==
    [k \in DOMAIN SpringsDict(l, TRUE) |->
        CASE k = "Longitudinal Force (lb/ft)" -> l.longitudinal_force
          [] k = "Axial Stress (psi)" -> l.axial_stress
          [] k = "Remaining Allowable Stress (psi)" -> l.remaining_allowable
          [] k = "Allowable Pipe Length in PGD (ft)" -> l.allowable_length
          [] OTHER -> SpringsDict(l, TRUE)[k]]

\* ExactSoilSpringsCalculator.calculate_exact_soil_springs
calculate_exact_soil_springs(pipe, soil) ==
    LET l == exact_soil_springs_locals(pipe, soil)
    IN  IF l.kind = "raise" THEN l
        ELSE [kind |-> "dict", value |-> ExactSpringsDict(l)]

\* pipe_params handed to the exact engine: the grades and coatings of its
\* tables and one of neither
ExactPipeParamsSamples ==
    { PipeParams(od, wt, grade, 10, length, coating, pressure, path) :
        od \in {12000, 16000}, wt \in {0, 375, 2000},
        grade \in {"Grade B", "X-42", "X-70", "X-80"}, length \in {10, 201},
        coating \in {"Rough Steel", "FBE"},
        pressure \in {0, 1440000, 2500000},
        path \in {"Parallel", "Perpendicular"} }
    \cup { EmptyDict }

-----------------------------------------------------------------------------
(***************************************************************************)
(* Idle values of the parts a specification does not exercise.             *)
(***************************************************************************)
LayerIdle ==
    /\ soil_layers = <<>>
    /\ pipe_depth_of_cover = NoDepth
    /\ soil_params = NoneRec

ClassifyIdle ==
    /\ pygeostudio_analyzer = None
    /\ slope_result = NoneRec
    /\ analysis_priority = None
    /\ assessment = NoneRec
    /\ solver_status = None

IntegrateIdle ==
    /\ slope_results = <<>>
    /\ slope_configs = <<>>
    /\ pipeline_configs = <<>>
    /\ excel_status = "unavailable"
    /\ integrated_results = <<>>
    /\ returned = NoneRec
    /\ decision_matrix = NoneRec

EngineIdle ==
    /\ pipe_params = NoneRec
    /\ soil_layer = NoneRec
    /\ springs_output = NoneRec

SweepIdle ==
    /\ parameters = NoneRec
    /\ generator = None
    /\ configurations = NoneRec

ExcelIdle ==
    /\ app = None
    /\ wb = None
    /\ excel_running = 0
    /\ integrate_pc = None

BatchIdle ==
    /\ analyzer_results = <<>>
    /\ batch_returned = NoneRec
    /\ analysis_log = <<>>
    /\ slope_decision_matrix = NoneRec

RunIdle ==
    /\ workflow_pc = None
    /\ generate_plots = FALSE
    /\ detailed_slope_results = <<>>
    /\ integrate_calls = 0
    /\ workflow_returned = NoneRec

CliIdle ==
    /\ cli_files = NoneRec
    /\ cli_returned = NoneRec

ParamIdle ==
    /\ default_parameters = NoneRec
    /\ params_returned = NoneRec
    /\ param_log = <<>>

ToolIdle == CliIdle /\ ParamIdle

WorkflowIdle == ExcelIdle /\ BatchIdle /\ RunIdle /\ ToolIdle

\* the parts an integrate_analyses call with its Excel state leaves alone
excel_frame ==
    <<layer_vars, classify_vars, engine_vars, sweep_vars, batch_vars, run_vars, tool_vars>>
ExcelFrameIdle ==
    LayerIdle /\ ClassifyIdle /\ EngineIdle /\ SweepIdle /\ BatchIdle /\ RunIdle /\ ToolIdle

\* the parts the batch analysis leaves alone
batch_frame ==
    <<layer_vars, classify_vars, integrate_vars, engine_vars, sweep_vars, excel_vars, run_vars,
      tool_vars>>
BatchFrameIdle ==
    LayerIdle /\ ClassifyIdle /\ IntegrateIdle /\ EngineIdle /\ SweepIdle /\ ExcelIdle
        /\ RunIdle /\ ToolIdle

\* the parts a workflow run leaves alone
run_frame == <<layer_vars, classify_vars, engine_vars, sweep_vars, excel_vars, tool_vars>>
RunFrameIdle ==
    LayerIdle /\ ClassifyIdle /\ EngineIdle /\ SweepIdle /\ ExcelIdle /\ ToolIdle

\* the parts the helper classes leave alone
tool_frame ==
    <<layer_vars, classify_vars, integrate_vars, engine_vars, sweep_vars, excel_vars, batch_vars,
      run_vars>>
ToolFrameIdle ==
    LayerIdle /\ ClassifyIdle /\ IntegrateIdle /\ EngineIdle /\ SweepIdle /\ ExcelIdle
        /\ BatchIdle /\ RunIdle

-----------------------------------------------------------------------------
(***************************************************************************)
(* Specification SpecLayer: one lookup of a stratigraphy at a depth.       *)
(***************************************************************************)
InitLayer ==
    /\ soil_layers \in UNION { Stratigraphies(n) : n \in 0..MaxLayers }
    /\ pipe_depth_of_cover \in (0..MaxDepth) \cup {NoDepth}
    /\ soil_params = NoneRec
    /\ ClassifyIdle /\ IntegrateIdle /\ EngineIdle /\ SweepIdle /\ WorkflowIdle

ConvertSlopeToSoilParams ==
    /\ soil_params = NoneRec
    /\ soil_params' = convert_slope_to_soil_params(soil_layers, pipe_depth_of_cover)
    /\ UNCHANGED <<soil_layers, pipe_depth_of_cover, classify_vars, integrate_vars, engine_vars, sweep_vars, workflow_vars>>

NextLayer == ConvertSlopeToSoilParams

SpecLayer == InitLayer /\ [][NextLayer]_vars

-----------------------------------------------------------------------------
(***************************************************************************)
(* Specification SpecClassify: one slope configuration is analysed by a    *)
(* SlopeStabilityAnalyzer, then prioritised and assessed.                  *)
(***************************************************************************)
InitClassify ==
    \* __init__: the PyGeoStudio analyzer is present only when the library and
    \* the .gsz template are
    /\ pygeostudio_analyzer \in {None, "PyGeoStudioAnalyzer"}
    /\ slope_result = NoneRec
    /\ analysis_priority = None
    /\ assessment = NoneRec
    /\ solver_status = None
    /\ LayerIdle /\ IntegrateIdle /\ EngineIdle /\ SweepIdle /\ WorkflowIdle

AnalyzeConfiguration ==
    /\ slope_result = NoneRec
    /\ \E raised \in BOOLEAN, total_fos \in FosValues, effective_fos \in FosValues :
           /\ (pygeostudio_analyzer = None /\ raised)
                 => (total_fos \in RandomTotalFos /\ effective_fos \in RandomEffectiveFos)
           /\ slope_result' = analyze_configuration(pygeostudio_analyzer, 1, raised,
                                                    total_fos, effective_fos)
           /\ solver_status' = IF raised THEN "failed" ELSE "solved"
    /\ UNCHANGED <<pygeostudio_analyzer, analysis_priority, assessment,
                   layer_vars, integrate_vars, engine_vars, sweep_vars, workflow_vars>>

GetAnalysisPriority ==
    /\ slope_result # NoneRec
    /\ analysis_priority = None
    /\ analysis_priority' = get_analysis_priority(slope_result)
    /\ UNCHANGED <<pygeostudio_analyzer, slope_result, assessment, solver_status,
                   layer_vars, integrate_vars, engine_vars, sweep_vars, workflow_vars>>

\* the two calls made for one (slope_result, spring_results) pair when an
\* IntegratedAnalysisResult is built
Assess ==
    /\ slope_result # NoneRec
    /\ assessment = NoneRec
    /\ \E springs \in SpringResultsSamples :
           assessment' = [kind                    |-> "assessment",
                          spring_results          |-> springs,
                          analysis_recommendation |-> get_recommendation(slope_result, springs),
                          priority_level          |-> get_priority_level(slope_result, springs)]
    /\ UNCHANGED <<pygeostudio_analyzer, slope_result, analysis_priority, solver_status,
                   layer_vars, integrate_vars, engine_vars, sweep_vars, workflow_vars>>

NextClassify == AnalyzeConfiguration \/ GetAnalysisPriority \/ Assess

SpecClassify == InitClassify /\ [][NextClassify]_vars

-----------------------------------------------------------------------------
(***************************************************************************)
(* Specification SpecIntegrate: one IntegratedAnalysisEngine; slope         *)
(* results, the slope configurations and a pipeline list are handed to      *)
(* integrate_analyses, and the decision matrix is asked for.                *)
(***************************************************************************)
InitIntegrate ==
    /\ slope_results \in SeqsUpTo(SlopeResultSamples, MaxSlopeResults)
    /\ slope_configs = SlopeConfigList
    /\ pipeline_configs \in { PipelineConfigList(n) : n \in 0..MaxPipelines }
    /\ excel_status \in {"unavailable", "failing", "working"}
    /\ integrated_results = <<>>
    /\ returned = NoneRec
    /\ decision_matrix = NoneRec
    /\ LayerIdle /\ ClassifyIdle /\ EngineIdle /\ SweepIdle /\ WorkflowIdle

IntegrateAnalyses ==
    /\ returned = NoneRec
    /\ \E springs \in (IF excel_status = "working" THEN ExcelOutputSamples ELSE {EmptyDict}) :
           LET out == integrate_analyses(excel_status, springs, integrated_results,
                                         slope_results, slope_configs, pipeline_configs)
           IN  /\ returned' = out.returned
               /\ integrated_results' = out.integrated_results
    /\ UNCHANGED <<slope_results, slope_configs, pipeline_configs, excel_status,
                   decision_matrix, layer_vars, classify_vars, engine_vars, sweep_vars, workflow_vars>>

CreateComprehensiveDecisionMatrix ==
    /\ decision_matrix = NoneRec
    /\ \E tie_up \in BOOLEAN :
           decision_matrix' = create_comprehensive_decision_matrix(integrated_results, tie_up)
    /\ UNCHANGED <<slope_results, slope_configs, pipeline_configs, excel_status,
                   integrated_results, returned, layer_vars, classify_vars, engine_vars, sweep_vars, workflow_vars>>

NextIntegrate == IntegrateAnalyses \/ CreateComprehensiveDecisionMatrix

SpecIntegrate == InitIntegrate /\ [][NextIntegrate]_vars

(***************************************************************************)
(* Specification SpecMatrix: the decision matrix of an engine whose         *)
(* integrated_results holds a list of results as the aggregation builds     *)
(* them.                                                                    *)
(***************************************************************************)
InitMatrix ==
    /\ integrated_results \in
           { create_mock_integrated_results(results, SlopeConfigList,
                                            PipelineConfigList(n), 1) :
               results \in SeqsUpTo(SlopeResultSamples, MaxSlopeResults),
               n \in 0..MaxPipelines }
    /\ slope_results = <<>>
    /\ slope_configs = <<>>
    /\ pipeline_configs = <<>>
    /\ excel_status = "unavailable"
    /\ returned = NoneRec
    /\ decision_matrix = NoneRec
    /\ LayerIdle /\ ClassifyIdle /\ EngineIdle /\ SweepIdle /\ WorkflowIdle

NextMatrix == CreateComprehensiveDecisionMatrix

SpecMatrix == InitMatrix /\ [][NextMatrix]_vars

(***************************************************************************)
(* Specification SpecEngine: one call of the manual-formula engine.         *)
(***************************************************************************)
InitEngine ==
    /\ pipe_params \in PipeParamsSamples
    /\ soil_layer \in SoilLayerSamples
    /\ springs_output = NoneRec
    /\ LayerIdle /\ ClassifyIdle /\ IntegrateIdle /\ SweepIdle /\ WorkflowIdle

CalculateSoilSpringsResults ==
    /\ springs_output = NoneRec
    /\ \E tie_up \in BOOLEAN :
           springs_output' = calculate_soil_springs_results(pipe_params, soil_layer, tie_up)
    /\ UNCHANGED <<pipe_params, soil_layer, layer_vars, classify_vars, integrate_vars, sweep_vars, workflow_vars>>

NextEngine == CalculateSoilSpringsResults

SpecEngine == InitEngine /\ [][NextEngine]_vars

(***************************************************************************)
(* Specification SpecExact: one call of the exact-Excel-formula engine.     *)
(***************************************************************************)
InitExact ==
    /\ pipe_params \in ExactPipeParamsSamples
    /\ soil_layer \in SoilLayerSamples
    /\ springs_output = NoneRec
    /\ LayerIdle /\ ClassifyIdle /\ IntegrateIdle /\ SweepIdle /\ WorkflowIdle

CalculateExactSoilSprings ==
    /\ springs_output = NoneRec
    /\ springs_output' = calculate_exact_soil_springs(pipe_params, soil_layer)
    /\ UNCHANGED <<pipe_params, soil_layer, layer_vars, classify_vars, integrate_vars, sweep_vars, workflow_vars>>

NextExact == CalculateExactSoilSprings

SpecExact == InitExact /\ [][NextExact]_vars

(***************************************************************************)
(* Configuration generators.                                               *)
(***************************************************************************)
\* longest angle, height and groundwater-ratio list handed to a generator
MaxAxisLen == 2
\* longest diameter and wall-thickness list handed to a generator
MaxPipeAxisLen == 4

\* the values of a list or dict
Range(f) == { f[i] : i \in DOMAIN f }

\* list[:n]
Slice(list, n) == SubSeq(list, 1, Min(Len(list), n))

\* nested for loops over the lists, outermost first (the order of
\* itertools.product): the last list varies fastest
RECURSIVE product(_)
product(lists) ==
    IF Len(lists) = 0 THEN << <<>> >>
    ELSE LET rest == product(Tail(lists))
             head == Head(lists)
         IN  [k \in 1..(Len(head) * Len(rest)) |->
                 << head[((k - 1) \div Len(rest)) + 1] >>
                     \o rest[((k - 1) % Len(rest)) + 1]]

\* the decimal digits of n >= 0, most significant first
RECURSIVE Digits(_)
Digits(n) == IF n < 10 THEN <<n>> ELSE Append(Digits(n \div 10), n % 10)

\* f"{n:0{width}d}"
ZeroPadded(n, width) ==
    LET d == Digits(n)
    IN  IF Len(d) >= width THEN d
        ELSE [k \in 1..(width - Len(d)) |-> 0] \o d

\* f"Config_{config_id:0{width}d}"
ConfigId(config_id, width) ==
    [prefix |-> "Config_", digits |-> ZeroPadded(config_id, width)]

\* _create_default_parameters: the axis lists (inches in mils, ratios in tenths)
DefaultSlopeAngles       == <<15, 20, 25, 30, 35, 40, 45>>
DefaultSlopeHeights      == <<20, 30, 40, 50, 60, 80, 100>>
DefaultGroundwaterRatios == <<5, 7, 9>>
DefaultOutsideDiameters  == <<16000, 20000, 24000, 30000, 36000>>
DefaultWallThicknesses   == <<375, 500, 625, 750>>
DefaultDepthsOfCover     == <<4, 6, 8, 10, 12, 15>>
DefaultLengthsInPgd      == <<5, 10, 15, 20, 30, 50>>
DefaultCoatings          == <<"FBE", "3LPE", "Concrete", "Tape">>
DefaultPressures         == <<1000000, 1200000, 1440000, 1600000>>
DefaultPgdPaths          == <<"perpendicular", "parallel">>

\* soil scenarios a parameter file can hold: the default weak scenario (two
\* layers), and scenarios of one and of three layers
SoilScenarioSamples ==
    { [name   |-> "Weak Soil Scenario",
       layers |-> << SoilLayer("Slope Material", 115, 100, 50, 15, 20),
                     SoilLayer("Foundation Material", 120, 200, 100, 25, 30) >>],
      [name   |-> "Single Layer Scenario",
       layers |-> << SoilLayer("Slope Material", 115, 100, 50, 15, 20) >>],
      [name   |-> "Three Layer Scenario",
       layers |-> << SoilLayer("Slope Material", 115, 100, 50, 15, 20),
                     SoilLayer("Weathered Material", 118, 150, 75, 20, 10),
                     SoilLayer("Foundation Material", 120, 200, 100, 25, 30) >>] }

\* ProjectParameters dataclass (the fields the generators read)
ProjectParameters(angles, heights, scenarios, ods, wts, grades, smys_list, docs, lengths, coatings, pressures, paths, gw_ratios) ==
    [slope_angles           |-> angles,
     slope_heights          |-> heights,
     soil_scenarios         |-> scenarios,
     pipe_outside_diameters |-> ods,
     pipe_wall_thicknesses  |-> wts,
     pipe_grades            |-> grades,
     pipe_smys_values       |-> smys_list,
     pipe_depths_of_cover   |-> docs,
     pipe_lengths_in_pgd    |-> lengths,
     pipe_coatings          |-> coatings,
     internal_pressures     |-> pressures,
     pgd_paths              |-> paths,
     groundwater_ratios     |-> gw_ratios]

\* parameter sets whose slope axes vary: angle lists of 0..MaxAxisLen values,
\* height and ratio lists of 1..MaxAxisLen, scenario lists of 1..MaxAxisLen
SlopeParameterSamples ==
    { ProjectParameters(Slice(DefaultSlopeAngles, a), Slice(DefaultSlopeHeights, h), sc,
                        DefaultOutsideDiameters, DefaultWallThicknesses,
                        <<"X-52", "X-60", "X-65", "X-70">>, <<52000, 60000, 65000, 70000>>,
                        DefaultDepthsOfCover, DefaultLengthsInPgd, DefaultCoatings,
                        DefaultPressures, DefaultPgdPaths, Slice(DefaultGroundwaterRatios, g)) :
        a \in 0..MaxAxisLen, h \in 1..MaxAxisLen, g \in 1..MaxAxisLen,
        sc \in SeqsUpTo(SoilScenarioSamples, MaxAxisLen) \ { <<>> } }

\* parameter sets whose pipeline axes vary: lists longer and shorter than the
\* generator's slices, grades inside and outside the SMYS table, with and
\* without the parallel SMYS list
PipelineParameterSamples ==
    { ProjectParameters(DefaultSlopeAngles, DefaultSlopeHeights, <<>>,
                        Slice(DefaultOutsideDiameters, o), Slice(DefaultWallThicknesses, w),
                        gr, sm, Slice(DefaultDepthsOfCover, 3), <<5>>, <<"FBE">>, <<1000000>>,
                        Slice(DefaultPgdPaths, p), DefaultGroundwaterRatios) :
        o \in 1..MaxPipeAxisLen, w \in 1..MaxPipeAxisLen, p \in 1..2,
        gr \in { <<"X-52">>, <<"X-52", "X-60", "X-65">>, <<"X-90", "X-70">> },
        sm \in { <<>>, <<52000>>, <<52000, 60000, 65000>> } }

\* ParameterInputManager.generate_slope_configurations: the loop body from
\* combination config_id on; configs are the configurations appended so far
RECURSIVE SlopeConfigurationLoop(_, _, _)
SlopeConfigurationLoop(combos, config_id, configs) ==
    IF config_id = Len(combos) THEN ReturnList(configs)
    ELSE LET angle         == combos[config_id + 1][1]
             height        == combos[config_id + 1][2]
             gw_ratio      == combos[config_id + 1][3]
             soil_scenario == combos[config_id + 1][4]
             geometry      == SlopeGeometry([slope_angle  |-> angle,
                                             slope_height |-> height,
                                             bench_width  |-> 0,
                                             toe_distance |-> 50])
             layers_data   == soil_scenario.layers
         IN  IF geometry.kind = "raise" THEN geometry
             ELSE IF Len(layers_data) # 2
             THEN [kind     |-> "raise",
                   error    |-> "ValueError",
                   scenario |-> soil_scenario.name,
                   found    |-> Len(layers_data)]
             ELSE SlopeConfigurationLoop(combos, config_id + 1,
                      Append(configs, SlopeConfiguration(ConfigId(config_id, 4), geometry,
                                                         layers_data, height * gw_ratio)))

\* ParameterInputManager.generate_slope_configurations
generate_slope_configurations(params) ==
    SlopeConfigurationLoop(product(<< params.slope_angles, params.slope_heights,
                                      params.groundwater_ratios, params.soil_scenarios >>),
                           0, <<>>)

\* SlopeStabilityAnalyzer.generate_slope_configurations: the three built-in
\* two-layer scenarios
soil_strength_scenarios ==
    << << SoilLayer("Slope Material", 115, 100, 50, 15, 20),
          SoilLayer("Foundation Material", 120, 200, 100, 25, 30) >>,
       << SoilLayer("Slope Material", 120, 200, 100, 25, 20),
          SoilLayer("Foundation Material", 125, 400, 200, 35, 30) >>,
       << SoilLayer("Slope Material", 125, 400, 200, 35, 20),
          SoilLayer("Foundation Material", 130, 1000, 500, 40, 30) >> >>

\* SlopeStabilityAnalyzer.generate_slope_configurations (groundwater at 70 %
\* of the height, in tenths of a foot)
analyzer_generate_slope_configurations ==
    LET combos == product(<< DefaultSlopeAngles, DefaultSlopeHeights, soil_strength_scenarios >>)
    IN  ReturnList([k \in 1..Len(combos) |->
            SlopeConfiguration(ConfigId(k - 1, 3), create_specified_slope,
                               combos[k][3], combos[k][2] * 7)])

\* get_smys_for_grade of generate_pipeline_configurations
grade_to_smys ==
    [g \in {"X-52", "X-60", "X-65", "X-70", "X-80"} |->
        CASE g = "X-52" -> 52000 [] g = "X-60" -> 60000 [] g = "X-65" -> 65000
          [] g = "X-70" -> 70000 [] g = "X-80" -> 80000]

get_smys_for_grade(grade) == DictGet(grade_to_smys, grade, 52000)

\* list.index(x), 0-based, for x in list
index(list, x) == (CHOOSE i \in 1..Len(list) :
                       /\ list[i] = x
                       /\ \A j \in 1..(i - 1) : list[j] # x) - 1

\* the SMYS the generator pairs with a grade: the table value, overridden by
\* pipe_smys_values[grade_index] when that list is non-empty and long enough
PipelineSmys(params, grade) ==
    LET smys == get_smys_for_grade(grade)
    IN  IF Len(params.pipe_smys_values) > 0
        THEN LET grade_index == IF \E i \in 1..Len(params.pipe_grades) : params.pipe_grades[i] = grade
                                THEN index(params.pipe_grades, grade) ELSE 0
             IN  IF grade_index < Len(params.pipe_smys_values)
                 THEN params.pipe_smys_values[grade_index + 1]
                 ELSE smys
        ELSE smys

\* ParameterInputManager.generate_pipeline_configurations
generate_pipeline_configurations(params) ==
    LET combos == product(<< Slice(params.pipe_outside_diameters, 3),
                             Slice(params.pipe_wall_thicknesses, 2),
                             Slice(params.pipe_grades, 2),
                             Slice(params.pipe_depths_of_cover, 3),
                             Slice(params.internal_pressures, 2),
                             Slice(params.pipe_lengths_in_pgd, 3),
                             Slice(params.pipe_coatings, 2),
                             params.pgd_paths >>)
    IN  ReturnList([k \in 1..Len(combos) |->
            PipelineConfiguration(combos[k][1], combos[k][2], combos[k][3],
                                  PipelineSmys(params, combos[k][3]), combos[k][4],
                                  combos[k][6], combos[k][7], combos[k][5], combos[k][8])])

(***************************************************************************)
(* Specification SpecSlopeSweep: one build of slope configurations, by     *)
(* either generator or by constructing a SlopeConfiguration directly.      *)
(***************************************************************************)
InitSlopeSweep ==
    /\ parameters \in SlopeParameterSamples
    /\ generator = None
    /\ configurations = NoneRec
    /\ LayerIdle /\ ClassifyIdle /\ IntegrateIdle /\ EngineIdle /\ WorkflowIdle

GenerateSlopeConfigurations ==
    /\ generator = None
    /\ generator' = "ParameterInputManager.generate_slope_configurations"
    /\ configurations' = generate_slope_configurations(parameters)
    /\ UNCHANGED <<parameters, layer_vars, classify_vars, integrate_vars, engine_vars, workflow_vars>>

AnalyzerGenerateSlopeConfigurations ==
    /\ generator = None
    /\ generator' = "SlopeStabilityAnalyzer.generate_slope_configurations"
    /\ configurations' = analyzer_generate_slope_configurations
    /\ UNCHANGED <<parameters, layer_vars, classify_vars, integrate_vars, engine_vars, workflow_vars>>

\* SlopeConfiguration(config_id='TEST_001',
\* geometry=SlopeGeometry.create_specified_slope(), soil_layers=...,
\* groundwater_depth=10) with a layer list of any length
ConstructSlopeConfiguration ==
    /\ generator = None
    /\ generator' = "SlopeConfiguration"
    /\ \E n \in 0..MaxLayers : \E layers \in Stratigraphies(n) :
           configurations' = ReturnList(<< SlopeConfiguration(
               [prefix |-> "TEST_001", digits |-> <<>>],
               create_specified_slope, layers, 100) >>)
    /\ UNCHANGED <<parameters, layer_vars, classify_vars, integrate_vars, engine_vars, workflow_vars>>

NextSlopeSweep ==
    \/ GenerateSlopeConfigurations
    \/ AnalyzerGenerateSlopeConfigurations
    \/ ConstructSlopeConfiguration

SpecSlopeSweep == InitSlopeSweep /\ [][NextSlopeSweep]_vars

(***************************************************************************)
(* Specification SpecPipelineSweep: one build of pipeline configurations.  *)
(***************************************************************************)
InitPipelineSweep ==
    /\ parameters \in PipelineParameterSamples
    /\ generator = None
    /\ configurations = NoneRec
    /\ LayerIdle /\ ClassifyIdle /\ IntegrateIdle /\ EngineIdle /\ WorkflowIdle

GeneratePipelineConfigurations ==
    /\ generator = None
    /\ generator' = "ParameterInputManager.generate_pipeline_configurations"
    /\ configurations' = generate_pipeline_configurations(parameters)
    /\ UNCHANGED <<parameters, layer_vars, classify_vars, integrate_vars, engine_vars, workflow_vars>>

NextPipelineSweep == GeneratePipelineConfigurations

SpecPipelineSweep == InitPipelineSweep /\ [][NextPipelineSweep]_vars

(***************************************************************************)
(* Static-values sweep (StaticValuesIterator and                           *)
(* EfficientStaticValuesCalculator).                                       *)
(***************************************************************************)
\* widest DOC range of the pipe assumptions: max - min
MaxRangeSpan == 2

\* one row of self.pipe_assumptions
Assumption(name, type, min, max) == [name |-> name, type |-> type, min |-> min, max |-> max]

\* pipe assumptions a workbook can hold, in sheet order: equal and different
\* minimum and maximum, a zero minimum wall thickness, and DOC ranges that are
\* empty (max below min), single and wider
PipeAssumptionSamples ==
    { << Assumption("Pipe OD (in)", "numeric", 12000, od_max),
         Assumption("Pipe wt (in)", "numeric", wt[1], wt[2]),
         Assumption("Pipe SMYS (psi)", "categorical", "X-42", smys_max),
         Assumption("Pipe DOC (ft)", "numeric", 4, doc_max),
         Assumption("Length of Pipe in PGD (ft)", "numeric", 10, length_max),
         Assumption("Pipe Coating", "categorical", "FBE", "FBE"),
         Assumption("Internal Pressure (psi)", "numeric", 0, pressure_max),
         Assumption("PGD Path (perpendicular/parallel to pipe)", "categorical",
                    "Parallel", path_max) >> :
        od_max \in {12000, 16000}, wt \in { <<0, 500>>, <<500, 500>>, <<500, 2000>> },
        smys_max \in {"X-42", "X-70"}, doc_max \in 3..(4 + MaxRangeSpan),
        length_max \in {10, 11}, pressure_max \in {0, 1440000},
        path_max \in {"Parallel", "Perpendicular"} }

\* the soil layer of the sweep (one row of self.soil_layers)
SweepSoilLayer ==
    [name |-> "Layer 1", type |-> "Clay", unit_weight |-> 125, cohesion |-> 50000,
     friction_angle |-> 30]

\* list(range(int(min_val), int(max_val) + 1, 1))
range(min, max) == [i \in 1..(max + 1 - min) |-> min + i - 1]

\* generate_pipe_parameter_ranges: the dict as its keys and its values, in
\* insertion order
generate_pipe_parameter_ranges(pipe_assumptions) ==
    [names  |-> [i \in 1..Len(pipe_assumptions) |-> pipe_assumptions[i].name],
     values |-> [i \in 1..Len(pipe_assumptions) |->
        LET param_data == pipe_assumptions[i]
        IN  IF param_data.type = "numeric"
            THEN IF param_data.name \in {"Pipe DOC (ft)", "Length of Pipe in PGD (ft)"}
                 THEN range(param_data.min, param_data.max)
                 ELSE IF param_data.min = param_data.max
                      THEN << param_data.min >>
                      ELSE << param_data.min, param_data.max >>
            ELSE IF param_data.min = param_data.max
                 THEN << param_data.min >>
                 ELSE << param_data.min, param_data.max >>]]

\* A plausible slip: the lengths are added, not multiplied.
RECURSIVE total_combinations_added(_)
total_combinations_added(param_values) ==
    IF Len(param_values) = 0 THEN 1
    ELSE total_combinations_added(Tail(param_values)) + Len(Head(param_values))

\* total = 1; for values in param_values: total *= len(values)
RECURSIVE total_combinations(_)
total_combinations(param_values) ==
    IF Len(param_values) = 0 THEN 1
    ELSE total_combinations(SubSeq(param_values, 1, Len(param_values) - 1))
             * Len(param_values[Len(param_values)])

\* dict(zip(param_names, combo))
zip_dict(param_names, combo) ==
    [name \in Range(param_names) |-> combo[index(param_names, name) + 1]]

\* what a sweep hands back, with the total it logged before generating
Rows(rows, total)       == [kind |-> "list", value |-> rows, total |-> total]
RowsRaise(error, total) == [kind |-> "raise", error |-> error, total |-> total]

\* StaticValuesIterator.generate_all_combinations
generate_all_combinations(pipe_ranges, soil) ==
    LET combos == product(pipe_ranges.values)
    IN  [k \in 1..Len(combos) |->
            [key \in {"Soil Name", "Soil Type", "Soil Effective Unit Weight (gamma', psf)",
                      "Soil Cohesion (c, psf)", "Soil Friction Angle (phi degrees)"} |->
                CASE key = "Soil Name" -> soil.name
                  [] key = "Soil Type" -> soil.type
                  [] key = "Soil Effective Unit Weight (gamma', psf)" -> soil.unit_weight
                  [] key = "Soil Cohesion (c, psf)" -> soil.cohesion
                  [] key = "Soil Friction Angle (phi degrees)" -> soil.friction_angle]
            @@ zip_dict(pipe_ranges.names, combos[k])]

\* StaticValuesIterator.run_complete_analysis, for one soil layer: the total
\* it logs and the rows it generates for the layer
run_complete_analysis(pipe_assumptions, soil) ==
    LET pipe_ranges == generate_pipe_parameter_ranges(pipe_assumptions)
    IN  Rows(generate_all_combinations(pipe_ranges, soil),
             total_combinations(pipe_ranges.values))

\* the loop of generate_combinations_with_calculations from combination k on:
\* an exception of the engine leaves the loop and the method
RECURSIVE CalculationLoop(_, _, _, _, _, _)
CalculationLoop(param_names, combos, soil, tie_up, k, combinations) ==
    IF k > Len(combos) THEN ReturnList(combinations)
    ELSE LET calculated_results ==
                 calculate_soil_springs_results(zip_dict(param_names, combos[k]), soil, tie_up)
         IN  IF calculated_results.kind = "raise" THEN calculated_results
             ELSE CalculationLoop(param_names, combos, soil, tie_up, k + 1,
                      Append(combinations,
                             calculated_results.value
                                 @@ [key \in {"Soil Name", "Soil Type"} |->
                                        IF key = "Soil Name" THEN soil.name ELSE soil.type]))

\* EfficientStaticValuesCalculator.generate_combinations_with_calculations
\* (tie_up: the direction every round() of the sweep takes on a tie)
generate_combinations_with_calculations(pipe_assumptions, soil, tie_up) ==
    LET pipe_ranges == generate_pipe_parameter_ranges(pipe_assumptions)
        total       == total_combinations(pipe_ranges.values)
        outcome     == CalculationLoop(pipe_ranges.names, product(pipe_ranges.values),
                                       soil, tie_up, 1, <<>>)
    IN  IF outcome.kind = "raise" THEN RowsRaise(outcome.error, total)
        ELSE Rows(outcome.value, total)

(***************************************************************************)
(* Specification SpecStaticSweep: one static-values sweep of one soil      *)
(* layer, by either sweep class.                                           *)
(***************************************************************************)
InitStaticSweep ==
    /\ parameters \in PipeAssumptionSamples
    /\ generator = None
    /\ configurations = NoneRec
    /\ LayerIdle /\ ClassifyIdle /\ IntegrateIdle /\ EngineIdle /\ WorkflowIdle

RunCompleteAnalysis ==
    /\ generator = None
    /\ generator' = "StaticValuesIterator.run_complete_analysis"
    /\ configurations' = run_complete_analysis(parameters, SweepSoilLayer)
    /\ UNCHANGED <<parameters, layer_vars, classify_vars, integrate_vars, engine_vars, workflow_vars>>

GenerateCombinationsWithCalculations ==
    /\ generator = None
    /\ generator' = "EfficientStaticValuesCalculator.generate_combinations_with_calculations"
    /\ \E tie_up \in BOOLEAN :
           configurations' =
               generate_combinations_with_calculations(parameters, SweepSoilLayer, tie_up)
    /\ UNCHANGED <<parameters, layer_vars, classify_vars, integrate_vars, engine_vars, workflow_vars>>

NextStaticSweep ==
    \/ RunCompleteAnalysis
    \/ GenerateCombinationsWithCalculations

SpecStaticSweep == InitStaticSweep /\ [][NextStaticSweep]_vars

-----------------------------------------------------------------------------
(***************************************************************************)
(* Specification SpecExcel: one integrate_analyses call with the Excel     *)
(* application and workbook of its SoilSpringsAnalyzer.  excel_status says *)
(* what Excel does: "no_app" (xw.App raises), "no_book" (app.books.open    *)
(* raises), "no_sheet" (wb.sheets[...] raises), "failing" (every spring    *)
(* analysis ends in an error), "working".                                  *)
(***************************************************************************)
\* SoilSpringsAnalyzer.open_excel(visible=False): the fields and the running
\* applications after it, and whether it raised
open_excel(status, running) ==
    IF status = "no_app"
    THEN [app |-> None, wb |-> None, excel_running |-> running, raised |-> TRUE]
    ELSE IF status = "no_book"
    THEN [app |-> "App", wb |-> None, excel_running |-> running + 1, raised |-> TRUE]
    ELSE IF status = "no_sheet"
    THEN [app |-> "App", wb |-> "Book", excel_running |-> running + 1, raised |-> TRUE]
    ELSE [app |-> "App", wb |-> "Book", excel_running |-> running + 1, raised |-> FALSE]

\* SoilSpringsAnalyzer.close_excel: close_error names the call that raises
\* ("wb.close", "app.quit") or is "none"; the exception is swallowed and the
\* statements after the raising call are skipped
close_excel(app_field, wb_field, running, close_error) ==
    IF wb_field # None /\ close_error = "wb.close"
    THEN [app |-> app_field, wb |-> wb_field, excel_running |-> running]
    ELSE IF app_field # None /\ close_error = "app.quit"
    THEN [app |-> app_field, wb |-> None, excel_running |-> running]
    ELSE [app |-> None, wb |-> None,
          excel_running |-> IF app_field # None THEN running - 1 ELSE running]

InitExcel ==
    /\ slope_results \in SeqsUpTo(SlopeResultSamples, 1)
    /\ slope_configs = SlopeConfigList
    /\ pipeline_configs \in { PipelineConfigList(n) : n \in 0..2 }
    /\ excel_status \in {"no_app", "no_book", "no_sheet", "failing", "working"}
    /\ integrated_results = <<>>
    /\ returned = NoneRec
    /\ decision_matrix = NoneRec
    /\ app = None
    /\ wb = None
    /\ excel_running = 0
    /\ integrate_pc = "open_excel"
    /\ ExcelFrameIdle

\* try: self.soil_springs_analyzer.open_excel(visible=False)
OpenExcel ==
    /\ integrate_pc = "open_excel"
    /\ LET opened == open_excel(excel_status, excel_running)
       IN  /\ app' = opened.app
           /\ wb' = opened.wb
           /\ excel_running' = opened.excel_running
           /\ integrate_pc' = IF opened.raised THEN "except" ELSE "try"
    /\ UNCHANGED <<integrate_vars, excel_frame>>

\* except Exception: return self._create_mock_integrated_results(...)
FallBackToMock ==
    /\ integrate_pc = "except"
    /\ returned' = ReturnList(create_mock_integrated_results(slope_results, slope_configs,
                                                             pipeline_configs, 1))
    /\ integrate_pc' = "done"
    /\ UNCHANGED <<slope_results, slope_configs, pipeline_configs, excel_status,
                   integrated_results, decision_matrix, app, wb, excel_running,
                   excel_frame>>

\* the body of the second try: the loop over the slope results; returned
\* holds what the call is about to hand back once the finally clause has run
IntegrationLoop ==
    /\ integrate_pc = "try"
    /\ \E springs \in (IF excel_status = "working" THEN ExcelOutputSamples ELSE {EmptyDict}) :
           returned' = ExcelLoop(slope_results, slope_configs, pipeline_configs, 1, springs)
    /\ integrate_pc' = "finally"
    /\ UNCHANGED <<slope_results, slope_configs, pipeline_configs, excel_status,
                   integrated_results, decision_matrix, app, wb, excel_running,
                   excel_frame>>

\* finally: self.soil_springs_analyzer.close_excel(); then, unless an
\* exception is propagating, self.integrated_results = integrated_results
CloseExcel ==
    /\ integrate_pc = "finally"
    /\ \E close_error \in {"none", "wb.close", "app.quit"} :
           LET closed == close_excel(app, wb, excel_running, close_error)
           IN  /\ app' = closed.app
               /\ wb' = closed.wb
               /\ excel_running' = closed.excel_running
    /\ integrated_results' = IF returned.kind = "list" THEN returned.value
                             ELSE integrated_results
    /\ integrate_pc' = "done"
    /\ UNCHANGED <<slope_results, slope_configs, pipeline_configs, excel_status,
                   returned, decision_matrix, excel_frame>>

NextExcel == OpenExcel \/ FallBackToMock \/ IntegrationLoop \/ CloseExcel

SpecExcel == InitExcel /\ [][NextExcel]_vars

(***************************************************************************)
(* Batch analysis (SlopeStabilityAnalyzer.batch_analyze and                *)
(* create_decision_matrix).                                                *)
(***************************************************************************)
\* most batch_analyze calls made on one analyzer
MaxBatchCalls == 2

\* what analysing one configuration does on the XML/CLI path: an exception
\* (of the XML handler or of the file system), or the FoS pair of the run
AnalysisOutcomes ==
    { [kind |-> "raise"] }
    \cup { [kind |-> "fos", total_fos |-> 999, effective_fos |-> 1002],
           [kind |-> "fos", total_fos |-> 2000, effective_fos |-> 2500] }

\* the configurations handed to batch_analyze: ids 1 and 2, weak scenario
BatchConfigSamples ==
    { SlopeConfiguration(id, create_specified_slope, soil_strength_scenarios[1], 140) :
        id \in {1, 2} }

\* the arguments of one batch_analyze call: up to two configurations, each
\* with what its analysis does
BatchInputs ==
    SeqsUpTo({ [config |-> c, outcome |-> o] :
                 c \in BatchConfigSamples, o \in AnalysisOutcomes }, 2)

\* A plausible slip: the try encloses the loop, so that the first exception
\* ends the batch.
RECURSIVE BatchLoopStoppingAtError(_, _, _, _)
BatchLoopStoppingAtError(inputs, i, batch, stored) ==
    IF i > Len(inputs) THEN [returned |-> batch, results |-> stored]
    ELSE IF inputs[i].outcome.kind = "raise"
    THEN [returned |-> batch, results |-> stored]
    ELSE LET result == analyze_configuration(None, inputs[i].config.config_id, FALSE,
                                             inputs[i].outcome.total_fos,
                                             inputs[i].outcome.effective_fos)
         IN  BatchLoopStoppingAtError(inputs, i + 1, Append(batch, result),
                                      Append(stored, result))

\* the for loop of batch_analyze from configuration i on; batch is the local
\* list results, stored is self.results
RECURSIVE BatchLoop(_, _, _, _)
BatchLoop(inputs, i, batch, stored) ==
    IF i > Len(inputs) THEN [returned |-> batch, results |-> stored]
    ELSE IF inputs[i].outcome.kind = "raise"
    THEN BatchLoop(inputs, i + 1, batch, stored)
    ELSE LET result == analyze_configuration(None, inputs[i].config.config_id, FALSE,
                                             inputs[i].outcome.total_fos,
                                             inputs[i].outcome.effective_fos)
         IN  BatchLoop(inputs, i + 1, Append(batch, result), Append(stored, result))

\* SlopeStabilityAnalyzer.batch_analyze
batch_analyze(inputs, stored) == BatchLoop(inputs, 1, <<>>, stored)

\* SlopeStabilityAnalyzer.create_decision_matrix
create_decision_matrix(stored, tie_up) ==
    [kind |-> "DataFrame",
     rows |-> [i \in 1..Len(stored) |->
        [Config_ID                  |-> stored[i].config_id,
         Total_Stress_FoS           |-> Round(stored[i].total_stress_fos, 10, tie_up),
         Effective_Stress_FoS       |-> Round(stored[i].effective_stress_fos, 10, tie_up),
         Min_FoS                    |-> Round(Min(stored[i].total_stress_fos,
                                                  stored[i].effective_stress_fos),
                                              10, tie_up),
         Requires_Detailed_Analysis |-> stored[i].requires_detailed_analysis,
         Analysis_Priority          |-> get_analysis_priority(stored[i])]]]

(***************************************************************************)
(* Specification SpecBatch: batch_analyze calls and decision matrices of   *)
(* one SlopeStabilityAnalyzer.                                             *)
(***************************************************************************)
InitBatch ==
    /\ analyzer_results = <<>>
    /\ batch_returned = NoneRec
    /\ analysis_log = <<>>
    /\ slope_decision_matrix = NoneRec
    /\ BatchFrameIdle

BatchAnalyze ==
    /\ Len(analysis_log) < MaxBatchCalls
    /\ \E inputs \in BatchInputs :
           LET out == batch_analyze(inputs, analyzer_results)
           IN  /\ analyzer_results' = out.results
               /\ batch_returned' = ReturnList(out.returned)
               /\ analysis_log' = Append(analysis_log, inputs)
    /\ UNCHANGED <<slope_decision_matrix, batch_frame>>

CreateDecisionMatrix ==
    /\ \E tie_up \in BOOLEAN :
           slope_decision_matrix' = create_decision_matrix(analyzer_results, tie_up)
    /\ UNCHANGED <<analyzer_results, batch_returned, analysis_log, batch_frame>>

NextBatch == BatchAnalyze \/ CreateDecisionMatrix

SpecBatch == InitBatch /\ [][NextBatch]_vars

(***************************************************************************)
(* Specification SpecWorkflow: one run of                                  *)
(* AutomatedDecisionWorkflow.run_complete_analysis or                      *)
(* run_complete_analysis_with_configs (the two differ in where the lists   *)
(* of configurations come from), step by step.                             *)
(***************************************************************************)
\* [r for r in slope_results if r.requires_detailed_analysis]
DetailedSlopeResults(batch) ==
    SelectSeq(batch, LAMBDA r : r.requires_detailed_analysis)

\* [c for c in slope_configs if any(r.config_id == c.config_id for r in detailed)]
DetailedSlopeConfigs(configs, detailed) ==
    SelectSeq(configs, LAMBDA c : \E i \in 1..Len(detailed) : detailed[i].config_id = c.config_id)

\* an empty pd.DataFrame()
EmptyDataFrame == [kind |-> "DataFrame", rows |-> <<>>]

\* _generate_analysis_plots: slope_matrix['Min_FoS'] raises KeyError on a
\* DataFrame without columns; nothing else of it bears on the control flow
generate_analysis_plots(slope_matrix) ==
    IF Len(slope_matrix.rows) = 0 THEN Raise("KeyError") ELSE NoneRec

InitWorkflow ==
    /\ workflow_pc = "batch_analyze"
    /\ generate_plots \in BOOLEAN
    /\ detailed_slope_results = <<>>
    /\ integrate_calls = 0
    /\ workflow_returned = NoneRec
    /\ BatchIdle
    /\ slope_results = <<>>
    /\ slope_configs = <<>>
    /\ pipeline_configs \in { PipelineConfigList(n) : n \in 0..2 }
    /\ excel_status \in {"unavailable", "failing", "working"}
    /\ integrated_results = <<>>
    /\ returned = NoneRec
    /\ decision_matrix = NoneRec
    /\ RunFrameIdle

\* slope_results = self.slope_analyzer.batch_analyze(slope_configurations)
WorkflowBatchAnalyze ==
    /\ workflow_pc = "batch_analyze"
    /\ \E inputs \in BatchInputs :
           LET out == batch_analyze(inputs, analyzer_results)
           IN  /\ analyzer_results' = out.results
               /\ batch_returned' = ReturnList(out.returned)
               /\ analysis_log' = Append(analysis_log, inputs)
               /\ slope_configs' = [i \in 1..Len(inputs) |-> inputs[i].config]
    /\ workflow_pc' = "create_decision_matrix"
    /\ UNCHANGED <<slope_decision_matrix, generate_plots, detailed_slope_results,
                   integrate_calls, workflow_returned, slope_results, pipeline_configs,
                   excel_status, integrated_results, returned, decision_matrix, run_frame>>

\* slope_decision_matrix = self.slope_analyzer.create_decision_matrix()
WorkflowCreateDecisionMatrix ==
    /\ workflow_pc = "create_decision_matrix"
    /\ \E tie_up \in BOOLEAN :
           slope_decision_matrix' = create_decision_matrix(analyzer_results, tie_up)
    /\ workflow_pc' = "select_detailed"
    /\ UNCHANGED <<analyzer_results, batch_returned, analysis_log, generate_plots,
                   detailed_slope_results, integrate_calls, workflow_returned,
                   integrate_vars, run_frame>>

\* the two list comprehensions and the test `if detailed_slope_results:`; the
\* else branch sets comprehensive_matrix = pd.DataFrame()
WorkflowSelectDetailed ==
    /\ workflow_pc = "select_detailed"
    /\ LET detailed == DetailedSlopeResults(batch_returned.value)
       IN  /\ detailed_slope_results' = detailed
           /\ slope_results' = detailed
           /\ slope_configs' = DetailedSlopeConfigs(slope_configs, detailed)
           /\ IF Len(detailed) > 0
              THEN /\ workflow_pc' = "integrate_analyses"
                   /\ UNCHANGED decision_matrix
              ELSE /\ workflow_pc' = "generate_plots"
                   /\ decision_matrix' = EmptyDataFrame
    /\ UNCHANGED <<batch_vars, generate_plots, integrate_calls, workflow_returned,
                   pipeline_configs, excel_status, integrated_results, returned, run_frame>>

\* integrated_results = self.integration_engine.integrate_analyses(...); an
\* exception of the call leaves the workflow through its except clause
WorkflowIntegrateAnalyses ==
    /\ workflow_pc = "integrate_analyses"
    /\ integrate_calls' = integrate_calls + 1
    /\ \E springs \in (IF excel_status = "working" THEN ExcelOutputSamples ELSE {EmptyDict}) :
           LET out == integrate_analyses(excel_status, springs, integrated_results,
                                         slope_results, slope_configs, pipeline_configs)
           IN  /\ returned' = out.returned
               /\ integrated_results' = out.integrated_results
               /\ IF out.returned.kind = "raise"
                  THEN /\ workflow_pc' = "done"
                       /\ workflow_returned' = out.returned
                  ELSE /\ workflow_pc' = "create_comprehensive_decision_matrix"
                       /\ UNCHANGED workflow_returned
    /\ UNCHANGED <<batch_vars, generate_plots, detailed_slope_results, slope_results,
                   slope_configs, pipeline_configs, excel_status, decision_matrix, run_frame>>

\* comprehensive_matrix = ...create_comprehensive_decision_matrix()
WorkflowComprehensiveMatrix ==
    /\ workflow_pc = "create_comprehensive_decision_matrix"
    /\ \E tie_up \in BOOLEAN :
           decision_matrix' = create_comprehensive_decision_matrix(integrated_results, tie_up)
    /\ workflow_pc' = "generate_plots"
    /\ UNCHANGED <<batch_vars, generate_plots, detailed_slope_results, integrate_calls,
                   workflow_returned, slope_results, slope_configs, pipeline_configs,
                   excel_status, integrated_results, returned, run_frame>>

\* if generate_plots: self._generate_analysis_plots(...); the summary; and
\* return comprehensive_matrix if not comprehensive_matrix.empty
\*        else slope_decision_matrix
WorkflowFinish ==
    /\ workflow_pc = "generate_plots"
    /\ LET plots == IF generate_plots THEN generate_analysis_plots(slope_decision_matrix)
                    ELSE NoneRec
       IN  workflow_returned' =
               IF plots.kind = "raise" THEN plots
               ELSE IF Len(decision_matrix.rows) > 0 THEN decision_matrix
               ELSE slope_decision_matrix
    /\ workflow_pc' = "done"
    /\ UNCHANGED <<batch_vars, generate_plots, detailed_slope_results, integrate_calls,
                   integrate_vars, run_frame>>

NextWorkflow ==
    \/ WorkflowBatchAnalyze
    \/ WorkflowCreateDecisionMatrix
    \/ WorkflowSelectDetailed
    \/ WorkflowIntegrateAnalyses
    \/ WorkflowComprehensiveMatrix
    \/ WorkflowFinish

SpecWorkflow == InitWorkflow /\ [][NextWorkflow]_vars

(***************************************************************************)
(* Specification SpecCli: GeoStudioCLI.run_xml_analysis with its output    *)
(* parser.  The text of an output file is modelled by what the three       *)
(* regular expressions find in it: a sequence of matches in file order,    *)
(* each the index of the pattern that matches there and the number it      *)
(* captures (in thousandths).                                              *)
(***************************************************************************)
MaxMatches == 2

\* a factor of safety that is None
NoFos == -1

\* fos_patterns, by index
FosPatterns == 1..3

FosMatchSamples == [pattern : FosPatterns, value : {950, 1400}]

OutputContents == SeqsUpTo(FosMatchSamples, MaxMatches)

\* each of possible_output_files is missing, fails to open or read, or reads
OutputFileStates == [1..3 -> {"missing", "unreadable", "readable"}]

\* re.findall(pattern, content, re.IGNORECASE), converted by float()
findall(pattern, content) ==
    LET hits == SelectSeq(content, LAMBDA t : t.pattern = pattern)
    IN  [i \in 1..Len(hits) |-> hits[i].value]

\* for pattern in fos_patterns: ... (lines 236-243)
RECURSIVE PatternLoop(_, _, _)
PatternLoop(content, p, results) ==
    IF p > 3 THEN results
    ELSE LET matches == findall(p, content)
             total   == IF Len(matches) > 0 /\ results.total_stress_fos = NoFos
                        THEN matches[1] ELSE results.total_stress_fos
             eff     == IF Len(matches) > 1 /\ results.effective_stress_fos = NoFos
                        THEN matches[2] ELSE results.effective_stress_fos
         IN  PatternLoop(content, p + 1,
                         [results EXCEPT !.total_stress_fos = total,
                                         !.effective_stress_fos = eff])

\* for output_file in possible_output_files: the first file that reads is
\* parsed and ends the loop; one that raises is logged and skipped
RECURSIVE OutputFileLoop(_, _, _, _)
OutputFileLoop(files, content, f, results) ==
    IF f > Len(files) THEN results
    ELSE IF files[f] = "readable" THEN PatternLoop(content, 1, results)
    ELSE OutputFileLoop(files, content, f + 1, results)

\* GeoStudioCLI._parse_results; factors of safety are thousandths
parse_results(files, content) ==
    LET blank == [total_stress_fos |-> NoFos, effective_stress_fos |-> NoFos,
                  critical_slip_surface |-> None]
        found == OutputFileLoop(files, content, 1, blank)
    IN  IF found.total_stress_fos = NoFos
        THEN [found EXCEPT !.total_stress_fos = 1500, !.effective_stress_fos = 1300]
        ELSE found

\* GeoStudioCLI.run_xml_analysis
run_xml_analysis(world) ==
    IF ~world.gsz_exists
    THEN [success |-> FALSE, results |-> [error |-> "Failed to convert XML to GSZ"]]
    ELSE IF world.run_succeeds
    THEN [success |-> TRUE, results |-> parse_results(world.files, world.content)]
    ELSE [success |-> FALSE, results |-> [error |-> "output"]]

InitCli ==
    /\ cli_files \in [gsz_exists : BOOLEAN, run_succeeds : BOOLEAN,
                      files : OutputFileStates, content : OutputContents]
    /\ cli_returned = NoneRec
    /\ ParamIdle
    /\ ToolFrameIdle

RunXmlAnalysis ==
    /\ cli_returned = NoneRec
    /\ cli_returned' = run_xml_analysis(cli_files)
    /\ UNCHANGED <<cli_files, param_vars, tool_frame>>

NextCli == RunXmlAnalysis

SpecCli == InitCli /\ [][NextCli]_vars

(***************************************************************************)
(* Specification SpecParams: one ParameterInputManager and the input       *)
(* methods that hand out self.default_parameters.  A ProjectParameters     *)
(* object is modelled by the three fields an input method assigns; a       *)
(* returned value is either a reference to the object default_parameters   *)
(* or a new object.                                                        *)
(***************************************************************************)
MaxParamCalls == 2

\* ParameterInputManager._create_default_parameters (fields no method assigns
\* are left out)
create_default_parameters ==
    [project_name  |-> "EMPCO Default Analysis",
     slope_angles  |-> DefaultSlopeAngles,
     slope_heights |-> DefaultSlopeHeights]

\* a reference to the object self.default_parameters
DefaultParametersRef == [kind |-> "ref", to |-> "default_parameters"]

\* a new ProjectParameters(**data)
NewParameters(data) == [kind |-> "object", value |-> data]

\* float(x) for the texts of the sample arguments
float(text) ==
    CASE text = "10" -> ReturnList(<<10>>)
      [] text = "45" -> ReturnList(<<45>>)
      [] OTHER       -> Raise("ValueError")

\* [float(x) for x in text.split(',')], on the list the split gives
RECURSIVE FloatList(_)
FloatList(tokens) ==
    IF Len(tokens) = 0 THEN ReturnList(<<>>)
    ELSE LET head == float(tokens[1])
             rest == FloatList(Tail(tokens))
         IN  IF head.kind = "raise" THEN head
             ELSE IF rest.kind = "raise" THEN rest
             ELSE ReturnList(head.value \o rest.value)

\* command line arguments: angles and heights as the list split(',') gives,
\* <<>> for an argument that is absent, None or empty; project_name "" likewise
ArgSamples ==
    [angles       : {<<>>, <<"10">>, <<"10", "45">>, <<"steep">>},
     heights      : {<<>>, <<"45">>, <<"high">>},
     project_name : {"", "Ridge Crossing"}]

\* ParameterInputManager.get_parameters_from_args: params is the object
\* self.default_parameters itself; the result is what is returned or raised
\* and the object afterwards
get_parameters_from_args(object, args) ==
    LET angles  == FloatList(args.angles)
        heights == FloatList(args.heights)
        after_angles  == IF Len(args.angles) > 0
                         THEN [object EXCEPT !.slope_angles = angles.value]
                         ELSE object
        after_heights == IF Len(args.heights) > 0
                         THEN [after_angles EXCEPT !.slope_heights = heights.value]
                         ELSE after_angles
        after_name    == IF args.project_name # ""
                         THEN [after_heights EXCEPT !.project_name = args.project_name]
                         ELSE after_heights
    IN  IF Len(args.angles) > 0 /\ angles.kind = "raise"
        THEN [returned |-> angles, object |-> object]
        ELSE IF Len(args.heights) > 0 /\ heights.kind = "raise"
        THEN [returned |-> heights, object |-> after_angles]
        ELSE [returned |-> DefaultParametersRef, object |-> after_name]

\* the configuration file a load method is pointed at: missing, or holding
\* a parameter set
ParameterFileSamples ==
    { [exists |-> FALSE],
      [exists |-> TRUE,
       data   |-> [project_name |-> "From File", slope_angles |-> <<30>>,
                   slope_heights |-> <<50>>]] }

\* load_parameters_from_json / load_parameters_from_yaml: a missing file
\* hands out self.default_parameters
load_parameters_from_file(file) ==
    IF ~file.exists THEN DefaultParametersRef
    ELSE NewParameters(file.data)

InitParams ==
    /\ default_parameters = create_default_parameters
    /\ params_returned = NoneRec
    /\ param_log = <<>>
    /\ CliIdle
    /\ ToolFrameIdle

GetParametersFromArgs ==
    /\ Len(param_log) < MaxParamCalls
    /\ \E args \in ArgSamples :
           LET out == get_parameters_from_args(default_parameters, args)
           IN  /\ default_parameters' = out.object
               /\ params_returned' = out.returned
    /\ param_log' = Append(param_log, "get_parameters_from_args")
    /\ UNCHANGED <<cli_vars, tool_frame>>

LoadParametersFromJson ==
    /\ Len(param_log) < MaxParamCalls
    /\ \E file \in ParameterFileSamples :
           params_returned' = load_parameters_from_file(file)
    /\ param_log' = Append(param_log, "load_parameters_from_json")
    /\ UNCHANGED <<default_parameters, cli_vars, tool_frame>>

\* yaml is imported at module level, so the except ImportError branch of the
\* method is never taken
LoadParametersFromYaml ==
    /\ Len(param_log) < MaxParamCalls
    /\ \E file \in ParameterFileSamples :
           params_returned' = load_parameters_from_file(file)
    /\ param_log' = Append(param_log, "load_parameters_from_yaml")
    /\ UNCHANGED <<default_parameters, cli_vars, tool_frame>>

NextParams == GetParametersFromArgs \/ LoadParametersFromJson \/ LoadParametersFromYaml

SpecParams == InitParams /\ [][NextParams]_vars

(***************************************************************************)
(* Properties: soil stratigraphy lookup (checked under SpecLayer).         *)
(***************************************************************************)
LookupDone == soil_params # NoneRec /\ pipe_depth_of_cover # NoDepth /\ Len(soil_layers) > 0

\* the returned parameters and provenance are those of layer k
IsLayer(params, k) ==
    /\ params.friction_angle = soil_layers[k].friction_angle
    /\ params.cohesion = soil_layers[k].cohesion_effective
    /\ params.unit_weight = soil_layers[k].unit_weight
    /\ params.soil_type.name = soil_layers[k].name

\* C1: a depth exactly on the boundary between layer k and layer k+1 (the sum
\* of the first k thicknesses, k < number of layers) returns the parameters
\* and provenance of layer k+1, the layer below the boundary.
C1_BoundaryReturnsLayerBelow ==
    LookupDone =>
        \A k \in 1..(Len(soil_layers) - 1) :
            pipe_depth_of_cover = SumThickness(soil_layers, k)
                => IsLayer(soil_params, k + 1)

\* C2: for a non-empty layer list and a depth >= 0 the lookup returns the
\* (friction_angle, cohesion_effective, unit_weight) of one layer of the list:
\* the layer whose interval strictly contains the depth, or, beyond the total
\* thickness, the last layer with a provenance marked as extrapolated.
C2_LookupReturnsContainingLayer ==
    LookupDone =>
        /\ \E k \in 1..Len(soil_layers) : IsLayer(soil_params, k)
        /\ \A k \in 1..Len(soil_layers) :
               ( /\ SumThickness(soil_layers, k - 1) < pipe_depth_of_cover
                 /\ pipe_depth_of_cover < SumThickness(soil_layers, k) )
               => /\ IsLayer(soil_params, k)
                  /\ soil_params.soil_type.kind = "at"
        /\ pipe_depth_of_cover > SumThickness(soil_layers, Len(soil_layers))
               => /\ IsLayer(soil_params, Len(soil_layers))
                  /\ soil_params.soil_type.kind = "extrapolated"
                  /\ soil_params.soil_type.depth = pipe_depth_of_cover

\* a lookup strictly inside a layer that is not the first one
C2_Witness ==
    /\ LookupDone
    /\ \E k \in 2..Len(soil_layers) :
           /\ SumThickness(soil_layers, k - 1) < pipe_depth_of_cover
           /\ pipe_depth_of_cover < SumThickness(soil_layers, k)
           /\ IsLayer(soil_params, k)

(***************************************************************************)
(* Properties: slope screening (checked under SpecClassify).               *)
(***************************************************************************)
MinFos(result) == Min(result.total_stress_fos, result.effective_stress_fos)

\* C3: whichever backend produced it, a SlopeAnalysisResult has
\* requires_detailed_analysis = TRUE exactly when min(total, effective) < 2.0.
C3_RequiresDetailedIffBelowTwo ==
    slope_result # NoneRec =>
        (slope_result.requires_detailed_analysis <=> MinFos(slope_result) < 2000)

\* C4: the analysis priority is one of four tiers fixed by m = min(total,
\* effective): Critical iff m < 1.0, High iff 1.0 <= m < 1.2, Medium iff
\* 1.2 <= m < 1.5, Low iff m >= 1.5.
C4_PriorityTiers ==
    analysis_priority # None =>
        LET m == MinFos(slope_result)
        IN  /\ analysis_priority \in {"Critical", "High", "Medium", "Low"}
            /\ analysis_priority = "Critical" <=> m < 1000
            /\ analysis_priority = "High"     <=> (1000 <= m /\ m < 1200)
            /\ analysis_priority = "Medium"   <=> (1200 <= m /\ m < 1500)
            /\ analysis_priority = "Low"      <=> m >= 1500

\* the boundary m = 1.0 classified
C4_Witness ==
    /\ analysis_priority = "High"
    /\ MinFos(slope_result) = 1000

\* Critical=1, High=2, Medium=3, Low=4
TierNumber(tier) ==
    CASE tier = "Critical" -> 1
      [] tier = "High"     -> 2
      [] tier = "Medium"   -> 3
      [] tier = "Low"      -> 4

Exceeds(a) == DictGet(a.spring_results, "exceeds_allowable", FALSE)

\* C5: priority_level is 1 iff (min_fos < 1.0 or exceeds_allowable), 2 iff not
\* exceeding and 1.0 <= min_fos < 1.2, 3 iff not exceeding and 1.2 <= min_fos
\* < 1.5, 4 iff not exceeding and min_fos >= 1.5; a non-exceeding result has
\* the slope-only tier, and exceedance never lowers the severity.
C5_PriorityLevel ==
    assessment # NoneRec =>
        LET m    == MinFos(slope_result)
            ex   == Exceeds(assessment)
            lvl  == assessment.priority_level
            tier == TierNumber(get_analysis_priority(slope_result))
        IN  /\ lvl = 1 <=> (m < 1000 \/ ex)
            /\ lvl = 2 <=> (~ex /\ 1000 <= m /\ m < 1200)
            /\ lvl = 3 <=> (~ex /\ 1200 <= m /\ m < 1500)
            /\ lvl = 4 <=> (~ex /\ m >= 1500)
            /\ ~ex => lvl = tier
            /\ lvl <= tier

\* an exceeding pipeline raises a stable slope to Critical
C5_Witness ==
    /\ assessment # NoneRec
    /\ Exceeds(assessment)
    /\ MinFos(slope_result) >= 1500
    /\ assessment.priority_level = 1

\* C8: the recommendation is a function of (min_fos, exceeds_allowable) only,
\* one of five messages: CRITICAL if min_fos < 1.0, otherwise HIGH PRIORITY if
\* exceeding, otherwise MEDIUM PRIORITY if min_fos < 1.5, otherwise LOW
\* PRIORITY if min_fos < 2.0, otherwise ACCEPTABLE.
C8_Recommendation ==
    assessment # NoneRec =>
        LET m   == MinFos(slope_result)
            ex  == Exceeds(assessment)
            rec == assessment.analysis_recommendation
        IN  /\ rec \in {"CRITICAL", "HIGH PRIORITY", "MEDIUM PRIORITY",
                        "LOW PRIORITY", "ACCEPTABLE"}
            /\ rec = "CRITICAL"        <=> m < 1000
            /\ rec = "HIGH PRIORITY"   <=> (m >= 1000 /\ ex)
            /\ rec = "MEDIUM PRIORITY" <=> (1000 <= m /\ m < 1500 /\ ~ex)
            /\ rec = "LOW PRIORITY"    <=> (1500 <= m /\ m < 2000 /\ ~ex)
            /\ rec = "ACCEPTABLE"      <=> (m >= 2000 /\ ~ex)

\* an unstable slope with an exceeding pipeline is still CRITICAL
C8_Witness ==
    /\ assessment # NoneRec
    /\ Exceeds(assessment)
    /\ MinFos(slope_result) < 1000
    /\ assessment.analysis_recommendation = "CRITICAL"

(***************************************************************************)
(* Properties: aggregation (checked under SpecIntegrate and SpecMatrix).   *)
(***************************************************************************)

\* C6: an integrated result is emitted for a slope result only if its flag is
\* True or min(total, effective) < 2.0; a slope result with the flag False and
\* min_fos >= 2.0 contributes none.
C6_OnlyAdmittedSlopesEmit ==
    returned.kind = "list" =>
        \A r \in Range(returned.value) :
            \E sr \in Range(slope_results) :
                /\ sr.config_id = r.config_id[1]
                /\ MinFos(sr) = r.slope_fos
                /\ (sr.requires_detailed_analysis \/ MinFos(sr) < 2000)

\* results were emitted although one matched slope result is not admitted
C6_Witness ==
    /\ returned.kind = "list"
    /\ Len(returned.value) > 0
    /\ \E sr \in Range(slope_results) :
           /\ sr.config_id = 1
           /\ ~sr.requires_detailed_analysis
           /\ MinFos(sr) >= 2000
    /\ \E sr \in Range(slope_results) :
           /\ sr.config_id = 1
           /\ ~sr.requires_detailed_analysis
           /\ MinFos(sr) < 2000

\* the admitted slope results that have a slope configuration
AdmittedMatched ==
    { i \in 1..Len(slope_results) :
        /\ \E c \in Range(slope_configs) : c.config_id = slope_results[i].config_id
        /\ (slope_results[i].requires_detailed_analysis \/ MinFos(slope_results[i]) < 2000) }

\* C7: integrate_analyses returns exactly one result per (admitted, matched
\* slope result, supplied pipeline configuration) pair: the number of results
\* is (admitted matched slope results) x (supplied pipeline configurations).
C7_OneResultPerPair ==
    returned # NoneRec =>
        /\ returned.kind = "list"
        /\ Len(returned.value) = Cardinality(AdmittedMatched) * Len(pipeline_configs)

ReturnedHoopStress(d) ==
    MulDiv(d["Internal Pressure (psi)"],
           (d["Pipe OD (in)"] \div 2) - d["Pipe wt (in)"],
           d["Pipe wt (in)"])

\* C10: the returned 'Exceeds Allowable' is 'Exceeds' exactly when
\* (returned Axial Stress + 0.5 * hoop_stress) > 0.72 * SMYS.
C10_FlagMatchesReturnedFields ==
    springs_output.kind = "dict" =>
        LET d == springs_output.value
        IN  (d["Exceeds Allowable"] = "Exceeds")
            <=> (2 * d["Axial Stress (psi)"] + ReturnedHoopStress(d)
                   > 2 * 720 * DictGet(smys_values, d["Pipe SMYS (psi)"], 42000))

(***************************************************************************)
(* Properties: stress-engine variants (checked under SpecExact).           *)
(***************************************************************************)
\* C11: every stress result has remaining_allowable_stress >= 0; an applied
\* stress above the allowable stress is reported as 0 remaining.
C11_RemainingNeverNegative ==
    springs_output.kind = "dict" =>
        springs_output.value["Remaining Allowable Stress (psi)"] >= 0

\* C12: allowable_length is never negative: it is the sentinel 1000 when the
\* longitudinal force is <= 0 and, for a positive force, 0 when the stress
\* margin (allowable stress minus the pressure term) is not positive.
C12_AllowableLengthNeverNegative ==
    springs_output.kind = "dict" =>
        LET d      == springs_output.value
            length == d["Allowable Pipe Length in PGD (ft)"]
        IN  /\ length >= 0
            /\ d["Longitudinal Force (lb/ft)"] <= 0 => length = 1000000
            /\ (d["Longitudinal Force (lb/ft)"] > 0
                  /\ d["Remaining Allowable Stress (psi)"] < 0) => length = 0

\* the smallest value listed in a lookup table
SmallestValue(table) ==
    CHOOSE v \in Range(table) : \A w \in Range(table) : v <= w

\* the stress the exact engine's pressure term takes, from a returned dict
ReturnedPressureStress(d) ==
    MulDiv(d["Internal Pressure (psi)"], d["Pipe OD (in)"], 4 * d["Pipe wt (in)"])

\* C13: a grade that is not a key of the lookup's table yields the smallest
\* SMYS listed in that table, a grade that is a key yields its own value, and
\* the computation goes on: the allowable stress the result is built on is
\* the stress factor times that SMYS.
C13_UnknownGradeTakesWeakest ==
    springs_output.kind = "dict" =>
        LET d     == springs_output.value
            grade == d["Pipe SMYS (psi)"]
            smys  == IF grade \in DOMAIN smys_lookup THEN smys_lookup[grade]
                     ELSE SmallestValue(smys_lookup)
        IN  d["Remaining Allowable Stress (psi)"] + ReturnedPressureStress(d)
              = 540 * smys

(***************************************************************************)
(* Properties: manual-formula engine, input validation (SpecEngine).       *)
(***************************************************************************)
\* C14: for pipe_od > 0 the engine raises exactly when the wall thickness is
\* <= 0 or >= pipe_od / 2 or the internal pressure is < 0, and returns a
\* result with an exceedance flag otherwise.
C14_RaisesIffStructurallyInvalid ==
    springs_output # NoneRec =>
        LET pipe_od  == DictGet(pipe_params, "Pipe OD (in)", 16000)
            pipe_wt  == DictGet(pipe_params, "Pipe wt (in)", 375)
            pressure == DictGet(pipe_params, "Internal Pressure (psi)", 1500000)
            invalid  == pipe_wt <= 0 \/ 2 * pipe_wt >= pipe_od \/ pressure < 0
        IN  pipe_od > 0 =>
              /\ (springs_output.kind = "raise") <=> invalid
              /\ ~invalid =>
                   /\ springs_output.kind = "dict"
                   /\ springs_output.value["Exceeds Allowable"]
                        \in {"Exceeds", "Does Not Exceed"}

(***************************************************************************)
(* Properties: solver failures (checked under SpecClassify).               *)
(***************************************************************************)
\* the results a successful solve can produce on the path of this analyzer
RealResults ==
    { analyze_configuration(pygeostudio_analyzer, 1, FALSE, total_fos, effective_fos) :
        total_fos \in FosValues, effective_fos \in FosValues }

\* C19: the result of a failed or missing solve is distinguishable from every
\* result of a real analysis.
C19_FailedSolveIsDistinguishable ==
    solver_status = "failed" => slope_result \notin RealResults

(***************************************************************************)
(* Properties: empty stratigraphy (checked under SpecLayer).               *)
(***************************************************************************)
\* C20: with an empty soil_layers list the lookup returns, for every depth
\* argument and for none, friction_angle 30, cohesion 100, unit_weight 125
\* with provenance 'Default', and does not raise.
C20_EmptyLayersGiveDefault ==
    (soil_params # NoneRec /\ Len(soil_layers) = 0) =>
        soil_params = [friction_angle |-> 30, cohesion |-> 100, unit_weight |-> 125,
                       soil_type |-> [kind |-> "Default"]]

\* a lookup with a depth on an empty stratigraphy has returned
C20_Witness ==
    /\ soil_params # NoneRec
    /\ Len(soil_layers) = 0
    /\ pipe_depth_of_cover # NoDepth
    /\ pipe_depth_of_cover > 0

(***************************************************************************)
(* Properties: configuration generators (checked under SpecSlopeSweep and  *)
(* SpecPipelineSweep).                                                     *)
(***************************************************************************)
\* the names of the scenarios of the parameter set whose layer count is not 2
BadScenarioNames ==
    { parameters.soil_scenarios[i].name : i \in
        { j \in 1..Len(parameters.soil_scenarios) :
            Len(parameters.soil_scenarios[j].layers) # 2 } }

\* C15: no SlopeConfiguration with a layer count other than 2 is ever built,
\* and building configurations from a parameter set that holds a scenario
\* with another layer count ends with the validation error that names such a
\* scenario, with no configuration list returned.
C15_OnlyTwoLayerConfigurations ==
    /\ configurations.kind = "list" =>
           \A i \in 1..Len(configurations.value) :
               Len(configurations.value[i].soil_layers) = 2
    /\ (generator = "ParameterInputManager.generate_slope_configurations"
            /\ BadScenarioNames # {}) =>
           /\ configurations.kind = "raise"
           /\ configurations.error = "ValueError"
           /\ configurations.scenario \in BadScenarioNames

\* the product of the lengths of the lists
RECURSIVE LengthProduct(_)
LengthProduct(lists) ==
    IF Len(lists) = 0 THEN 1 ELSE Len(Head(lists)) * LengthProduct(Tail(lists))

\* the k-th combination (1-based) of the lists in nested order, the last list
\* innermost: a mixed-radix reading of k - 1
Combination(lists, k) ==
    [j \in 1..Len(lists) |->
        lists[j][(((k - 1) \div LengthProduct(SubSeq(lists, j + 1, Len(lists))))
                     % Len(lists[j])) + 1]]

\* 'Config_' followed by n as four decimal digits
FourDigitId(n) ==
    [prefix |-> "Config_",
     digits |-> << (n \div 1000) % 10, (n \div 100) % 10, (n \div 10) % 10, n % 10 >>]

\* C16: each slope generator returns one configuration per combination of its
\* axes, in nested order (angle, height, groundwater ratio where present, soil
\* scenario innermost); the configuration at 0-based position i has the id
\* 'Config_' + i padded to four digits, and the ids are pairwise distinct.
C16_ConfigIdsAreFourDigitIndices ==
    /\ (generator = "ParameterInputManager.generate_slope_configurations"
            /\ BadScenarioNames = {}) =>
           LET axes == << parameters.slope_angles, parameters.slope_heights,
                          parameters.groundwater_ratios, parameters.soil_scenarios >>
           IN  /\ configurations.kind = "list"
               /\ Len(configurations.value) = LengthProduct(axes)
               /\ \A k \in 1..Len(configurations.value) :
                      /\ configurations.value[k].config_id = FourDigitId(k - 1)
                      /\ configurations.value[k].soil_layers = Combination(axes, k)[4].layers
                      /\ configurations.value[k].groundwater_depth =
                             Combination(axes, k)[2] * Combination(axes, k)[3]
    /\ generator = "SlopeStabilityAnalyzer.generate_slope_configurations" =>
           LET axes == << DefaultSlopeAngles, DefaultSlopeHeights, soil_strength_scenarios >>
           IN  /\ configurations.kind = "list"
               /\ Len(configurations.value) = LengthProduct(axes)
               /\ \A k \in 1..Len(configurations.value) :
                      /\ configurations.value[k].config_id = FourDigitId(k - 1)
                      /\ configurations.value[k].soil_layers = Combination(axes, k)[3]
                      /\ configurations.value[k].groundwater_depth = Combination(axes, k)[2] * 7
    /\ generator \in { "ParameterInputManager.generate_slope_configurations",
                       "SlopeStabilityAnalyzer.generate_slope_configurations" } =>
           (configurations.kind = "list" =>
               \A i, j \in 1..Len(configurations.value) :
                   i # j => configurations.value[i].config_id # configurations.value[j].config_id)

\* C17: generate_pipeline_configurations returns exactly one configuration
\* for every combination of the values of all its axis lists, so the count is
\* the product of the list lengths.
C17_OneConfigurationPerCombination ==
    generator = "ParameterInputManager.generate_pipeline_configurations" =>
        LET axes == << parameters.pipe_outside_diameters, parameters.pipe_wall_thicknesses,
                       parameters.pipe_grades, parameters.pipe_depths_of_cover,
                       parameters.internal_pressures, parameters.pipe_lengths_in_pgd,
                       parameters.pipe_coatings, parameters.pgd_paths >>
        IN  /\ configurations.kind = "list"
            /\ Len(configurations.value) = LengthProduct(axes)
            /\ \A k \in 1..LengthProduct(axes) :
                   Cardinality({ i \in 1..Len(configurations.value) :
                       LET c == configurations.value[i]
                       IN  << c.pipe_od, c.pipe_wt, c.pipe_grade, c.pipe_doc,
                              c.internal_pressure, c.pipe_length_in_pgd, c.pipe_coating,
                              c.pgd_direction >> = Combination(axes, k) }) = 1

(***************************************************************************)
(* Properties: static-values sweep (checked under SpecStaticSweep).        *)
(***************************************************************************)
\* a static-values sweep has been run
SweepRan ==
    generator \in { "StaticValuesIterator.run_complete_analysis",
                    "EfficientStaticValuesCalculator.generate_combinations_with_calculations" }

\* the rows of the sweep's layer are exactly the combinations of the range
\* values, each once, and as many as the total logged beforehand
RowsAreTheCombinations ==
    LET pipe_ranges == generate_pipe_parameter_ranges(parameters)
        rows        == configurations.value
    IN  /\ configurations.total = LengthProduct(pipe_ranges.values)
        /\ Len(rows) = configurations.total
        /\ \A k \in 1..LengthProduct(pipe_ranges.values) :
               Cardinality({ i \in 1..Len(rows) :
                   \A j \in 1..Len(pipe_ranges.names) :
                       rows[i][pipe_ranges.names[j]]
                           = Combination(pipe_ranges.values, k)[j] }) = 1

C21_StoredResultsAreTheReturnedList ==
    returned.kind = "list" => integrated_results = returned.value

(***************************************************************************)
(* Properties: Excel application and workbook (checked under SpecExcel).   *)
(***************************************************************************)
\* C22: whenever integrate_analyses has terminated, by return, by the mock
\* fallback after open_excel failed, or by a propagating exception, the
\* SoilSpringsAnalyzer holds no workbook and no application (wb and app are
\* None) and every Excel application that open_excel started has been quit.
C22_NoExcelLeftOpen ==
    integrate_pc = "done" => (app = None /\ wb = None /\ excel_running = 0)

(***************************************************************************)
(* Properties: batch analysis (checked under SpecBatch).                   *)
(***************************************************************************)
\* the results of the analyses of one call that did not raise, in input order
CallResults(inputs) ==
    LET kept == SelectSeq(inputs, LAMBDA x : x.outcome.kind # "raise")
    IN  [i \in 1..Len(kept) |->
            SlopeAnalysisResult(kept[i].config.config_id, kept[i].outcome.total_fos,
                                kept[i].outcome.effective_fos, "generated",
                                requires_detailed_analysis(kept[i].outcome.total_fos,
                                                           kept[i].outcome.effective_fos))]

\* the results of the first n calls of the log, in call order
RECURSIVE ResultsOfCalls(_, _)
ResultsOfCalls(log, n) ==
    IF n = 0 THEN <<>> ELSE ResultsOfCalls(log, n - 1) \o CallResults(log[n])

\* C24: after any sequence of batch_analyze calls, analyzer.results is the
\* concatenation, in call order and input order, of the results of every
\* configuration whose analysis did not raise (nothing is cleared, a
\* configuration analysed twice has two rows in the decision matrix), and an
\* exception omits only its own configuration: each call returns the results
\* of all its other configurations.
C24_ResultsAccumulateInOrder ==
    /\ analyzer_results = ResultsOfCalls(analysis_log, Len(analysis_log))
    /\ Len(analysis_log) > 0 =>
           batch_returned = ReturnList(CallResults(analysis_log[Len(analysis_log)]))
    /\ slope_decision_matrix # NoneRec =>
           /\ Len(slope_decision_matrix.rows) <= Len(analyzer_results)
           /\ \A i \in 1..Len(slope_decision_matrix.rows) :
                  slope_decision_matrix.rows[i].Config_ID = analyzer_results[i].config_id

\* two calls have analysed configuration 1, the second after an exception on
\* another configuration of the same call, and the matrix shows it twice
C24_Witness ==
    /\ Len(analysis_log) = 2
    /\ Len(analysis_log[2]) = 2
    /\ analysis_log[2][1].outcome.kind = "raise"
    /\ analysis_log[2][2].outcome.kind = "fos"
    /\ analysis_log[2][2].config.config_id = 1
    /\ slope_decision_matrix # NoneRec
    /\ Cardinality({ i \in 1..Len(slope_decision_matrix.rows) :
                       slope_decision_matrix.rows[i].Config_ID = 1 }) = 2

(***************************************************************************)
(* Properties: workflow order (checked under SpecWorkflow).                *)
(***************************************************************************)
\* some result the batch returned is flagged for detailed analysis
SomeResultFlagged ==
    /\ batch_returned # NoneRec
    /\ \E i \in 1..Len(batch_returned.value) :
           batch_returned.value[i].requires_detailed_analysis

\* integrate_analyses is invoked at most once, only after batch_analyze has
\* returned the results of all its configurations, and only if some result
\* is flagged
IntegrationIsGated ==
    /\ integrate_calls <= 1
    /\ integrate_calls = 1 =>
           /\ batch_returned = ReturnList(CallResults(analysis_log[1]))
           /\ SomeResultFlagged
           /\ \A i \in 1..Len(slope_results) : slope_results[i].requires_detailed_analysis

\* C23: in both workflow methods integrate_analyses is invoked at most once,
\* only after batch_analyze has finished for all slope configurations, and
\* only if at least one slope result is flagged; when no result is flagged no
\* pipeline evaluation happens and the workflow returns the slope-only
\* decision matrix.
C23_IntegrationGatedAndSlopeOnlyReturn ==
    /\ IntegrationIsGated
    /\ (workflow_pc = "done" /\ ~SomeResultFlagged) =>
           /\ integrate_calls = 0
           /\ returned = NoneRec
           /\ integrated_results = <<>>
           /\ workflow_returned = slope_decision_matrix

(***************************************************************************)
(* Properties: GeoStudio output parsing (checked under SpecCli).           *)
(***************************************************************************)
\* C25: whenever run_xml_analysis reports success, the results hold a
\* numeric, non-null total_stress_fos and effective_stress_fos, whether the
\* output file holds zero, one or more Factor of Safety matches.
C25_SuccessHasBothFos ==
    (cli_returned # NoneRec /\ cli_returned.success) =>
        /\ cli_returned.results.total_stress_fos # NoFos
        /\ cli_returned.results.effective_stress_fos # NoFos

\* what the two paths are said to share: config_id, slope_fos and soil_params
\* of each result, in order
SharedFields(list) ==
    [i \in 1..Len(list) |->
        <<list[i].config_id, list[i].slope_fos, list[i].soil_params>>]

\* C26: with Excel open and every spring analysis non-empty, integrate_analyses
\* does not raise and returns results for the same sequence of (slope,
\* pipeline) pairs, with the same config_id, slope_fos and soil_params, as the
\* mock path returns for the same arguments.
C26_ExcelPathMatchesMockPath ==
    (returned # NoneRec /\ excel_status = "working") =>
        /\ returned.kind = "list"
        /\ SharedFields(returned.value)
               = SharedFields(create_mock_integrated_results(
                                  slope_results, slope_configs, pipeline_configs, 1))

\* the priority level a recommendation's leading category stands for
CategoryLevel(recommendation) ==
    IF recommendation = "CRITICAL" THEN 1
    ELSE IF recommendation = "HIGH PRIORITY" THEN 2
    ELSE IF recommendation = "MEDIUM PRIORITY" THEN 3
    ELSE 4

C29_ConfigIdIdentifiesPair ==
    (returned # NoneRec /\ returned.kind = "list") =>
        \A i, j \in 1..Len(returned.value) :
            returned.value[i].config_id = returned.value[j].config_id
                => returned.value[i].pipeline_config = returned.value[j].pipeline_config

C30_DefaultsNeverModified ==
    default_parameters = create_default_parameters

====
